---- MODULE Spec2Model ----
(***************************************************************************)
(* Git notes viewer: the background worker (background.js) and the content *)
(* script (content.js) as state machines.                                  *)
(*                                                                         *)
(* Strings the code slices, compares or concatenates are sequences of      *)
(* characters; identifiers the code only passes around are TLA+ strings.   *)
(* An asynchronous function is cut at the awaits that wait for I/O (the    *)
(* network, extension storage, a timer): the code between two such awaits  *)
(* runs to completion on the single event loop and is one action.          *)
(***************************************************************************)
EXTENDS Integers, Sequences, FiniteSets, TLC

VARIABLES
    \* background worker
    treeCache,  \* background.js:4   Map: cache key -> [tree, ts]
    now,        \* Date.now() of the background worker
    storage,    \* browser.storage.local: [githubToken, noteRefs]
    h,          \* the handleFetchGitNote invocation: its locals and position
    hist,       \* what the invocation in flight has done so far (observation only)
    storedBy,   \* observation only: cache key -> the (owner, repo, ref) whose fetch stored it
    flushed,    \* observation only: the cache keys whose entry, still valid, was there
                \* when CLEAR_CACHE ran, until a tree is stored under the key again
    used,       \* [requests, ticks, pages, navs, notes]: how much of the bounds has been used
    \* content script: one run of the loop of processCommitPage
    fr,         \* the run: locals of processCommitPage, fetchGitNote and fetchNoteContent
    flog,       \* the requests the run has issued, in order, each with the class
                \* of its answer (observation only)
    cachedToken, \* content.js:90  _cachedToken
    \* content script: the page, and the runs of processCommitPage on it
    location,         \* location.href
    lastProcessedUrl, \* content.js:6
    currentUrl,       \* content.js:693
    doc,              \* the document: [inj, dom, elems]
    runs,             \* the calls of processCommitPage that reached an await
    env,              \* [opened, loaded, turbo, render]: page open, script evaluated,
                      \* events pending
    lastMut,          \* the last change a run made to the document (observation only)
    \* content script: what it does with the content of a note
    fmt,              \* the last call of detectFormat: [content, format, calls]
    fanout,           \* the last fanout split of a commit SHA: [sha, prefix, suffix, path]
    rendered,         \* the last call of renderContentToHtml: [content, format, libs, html]
    box,              \* the box that showNotes built for a note, and its buttons
    parsed            \* the last call of parseCommitUrl: [pathname, match]

bgVars == <<treeCache, now, h, hist, storedBy, flushed>>
fetchVars == <<fr, flog, cachedToken>>
pageVars == <<location, lastProcessedUrl, currentUrl, doc, runs, env, lastMut>>

noteVars == <<fmt, fanout, rendered, box, parsed>>

\* what the actions of one component leave alone
notBg == <<fetchVars, pageVars, noteVars>>
notFetch == <<bgVars, pageVars, noteVars>>
notPage == <<bgVars, fetchVars, noteVars>>
notNote == <<bgVars, fetchVars, pageVars>>

vars == <<bgVars, storage, used, fetchVars, pageVars, noteVars>>

----------------------------------------------------------------------------
(* Bounds of the model *)

MaxRequests == 2   \* FETCH_GIT_NOTE messages handled in one behaviour
MaxTicks == 2      \* clock advances in one behaviour
MaxPages == 1      \* commit pages the content script processes in one behaviour
MaxRuns == 2       \* calls of processCommitPage that reach an await in one behaviour
MaxNavs == 2       \* in-page navigations in one behaviour
MaxNotes == 1      \* different note contents handled in one behaviour

----------------------------------------------------------------------------
(* String helpers: JS String.prototype.slice / startsWith on sequences *)

Min(a, b) == IF a < b THEN a ELSE b

Rep(c, n) == [j \in 1..n |-> c]

\* s.slice(a, b)
slice(s, a, b) == SubSeq(s, Min(a, Len(s)) + 1, Min(b, Len(s)))

\* mutant: the character at index a is dropped as well
sliceFrom_DropsOne(s, a) == SubSeq(s, Min(a, Len(s)) + 2, Len(s))

\* s.slice(a)
sliceFrom(s, a) == SubSeq(s, Min(a, Len(s)) + 1, Len(s))

startsWith(s, p) == Len(p) <= Len(s) /\ SubSeq(s, 1, Len(p)) = p

----------------------------------------------------------------------------
(* Program constants *)

CACHE_TTL == 5 * 60 * 1000

ShaLen == 40        \* a full commit SHA: 40 hex characters
FanoutLen == 2      \* commitSha.slice(0, 2) / commitSha.slice(2)

----------------------------------------------------------------------------
(* The world the worker talks to: two repositories whose owner and name    *)
(* are chosen so that owner ++ repo is the same string for both, and the   *)
(* notes refs of each, in Git's direct and fanout layouts.                 *)

Repo1 == [owner |-> <<"a">>, repo |-> <<"b", "b">>]
Repo2 == [owner |-> <<"a", "b">>, repo |-> <<"b">>]
Repos == {Repo1, Repo2}

RefCommits == <<"refs", "/", "notes", "/", "commits">>
RefTrail == <<"refs", "/", "notes", "/", "claude-prompt-trail">>

ShaA == <<"a", "b">> \o Rep("c", ShaLen - 2)
ShaB == <<"a", "b">> \o Rep("d", ShaLen - 2)
ShaC == <<"c", "d">> \o Rep("e", ShaLen - 2)
ShaD == <<"e", "e">> \o Rep("f", ShaLen - 2)
FullShas == {ShaA, ShaB, ShaC, ShaD}

\* abbreviated SHAs a commit URL may carry (COMMIT_URL_RE: 5 to 40 characters)
AbbrevShas == {SubSeq(ShaA, 1, 5), SubSeq(ShaC, 1, 39)}

ShaInputs == FullShas \cup AbbrevShas

Blob(path, sha) == [path |-> path, type |-> "blob", sha |-> sha]
Tree(path, sha) == [path |-> path, type |-> "tree", sha |-> sha]

\* GET /repos/{owner}/{repo}/git/ref/{ref}: object.sha, "null" when the ref is missing
ServerRef(owner, repo, ref) ==
    IF owner = Repo1.owner /\ repo = Repo1.repo /\ ref = RefCommits THEN "c_r1c"
    ELSE IF owner = Repo1.owner /\ repo = Repo1.repo /\ ref = RefTrail THEN "c_r1t"
    ELSE IF owner = Repo2.owner /\ repo = Repo2.repo /\ ref = RefCommits THEN "c_r2c"
    ELSE "null"

\* GET .../git/commits/{sha}: tree.sha
ServerCommit(sha) ==
    CASE sha = "c_r1c" -> "t_r1c"
      [] sha = "c_r1t" -> "t_r1t"
      [] sha = "c_r2c" -> "t_r2c"
      [] OTHER -> "null"

\* GET .../git/trees/{sha}: the entries of the tree
ServerTree(sha) ==
    CASE sha = "t_r1c" ->
            \* direct layout for ShaA, fanout for ShaC
            << Blob(ShaA, "b_r1c_A"), Tree(<<"c", "d">>, "t_r1c_cd") >>
      [] sha = "t_r1c_cd" ->
            << Blob(sliceFrom(ShaC, FanoutLen), "b_r1c_C") >>
      [] sha = "t_r1t" ->
            \* fanout for ShaA and ShaB, direct for ShaC
            << Tree(<<"a", "b">>, "t_r1t_ab"), Blob(ShaC, "b_r1t_C") >>
      [] sha = "t_r1t_ab" ->
            << Blob(sliceFrom(ShaA, FanoutLen), "b_r1t_A"),
               Tree(<<"c", "c">>, "t_r1t_ab_cc"),
               Blob(sliceFrom(ShaB, FanoutLen), "b_r1t_B") >>
      [] sha = "t_r2c" ->
            \* ShaB both direct and under its fanout directory
            << Tree(<<"a", "b">>, "t_r2c_ab"), Blob(ShaB, "b_r2c_B") >>
      [] sha = "t_r2c_ab" ->
            << Tree(sliceFrom(ShaA, FanoutLen), "t_r2c_ab_x"),
               Blob(sliceFrom(ShaB, FanoutLen), "b_r2c_B2") >>
      [] OTHER -> << >>

TreeShas == {"t_r1c", "t_r1c_cd", "t_r1t", "t_r1t_ab", "t_r2c", "t_r2c_ab"}

\* GET .../git/blobs/{sha}: [encoding, content]; base64 content is the text wrapped
BlobShas == {"b_r1c_A", "b_r1c_C", "b_r1t_A", "b_r1t_B", "b_r1t_C", "b_r2c_B", "b_r2c_B2"}

ServerBlob(sha) ==
    IF sha \in {"b_r1c_A", "b_r1t_B", "b_r2c_B2"}
    THEN [encoding |-> "base64", content |-> <<"base64", sha>>]
    ELSE [encoding |-> "utf-8", content |-> <<"text", sha>>]

\* the notes tree of a ref as the server holds it
NotesTree(owner, repo, ref) == ServerTree(ServerCommit(ServerRef(owner, repo, ref)))

HasEntry(entries, name, type) ==
    \E k \in 1..Len(entries) : entries[k].path = name /\ entries[k].type = type

EntrySha(entries, name, type) ==
    entries[CHOOSE k \in 1..Len(entries) :
                entries[k].path = name /\ entries[k].type = type].sha

HasEntryStarting(entries, p, type) ==
    \E k \in 1..Len(entries) : startsWith(entries[k].path, p) /\ entries[k].type = type

----------------------------------------------------------------------------
(* background.js: cache, GitHub API wrapper *)

\* mutant: the separators left out of the key
cacheKey_NoSeparator(owner, repo, noteRef) == owner \o repo \o noteRef

\* `${owner}/${repo}:${noteRef}`
cacheKey(owner, repo, noteRef) == owner \o <<"/">> \o repo \o <<":">> \o noteRef

\* mutant: an entry aged exactly CACHE_TTL still counts as valid
isCacheValid_Inclusive(entry, t) == entry.present /\ t - entry.ts <= CACHE_TTL

\* entry && Date.now() - entry.ts < CACHE_TTL; an absent entry is [present |-> FALSE]
isCacheValid(entry, t) == entry.present /\ t - entry.ts < CACHE_TTL

NoEntry == [present |-> FALSE, tree |-> << >>, ts |-> 0]

cacheGet(cache, key) ==
    IF key \in DOMAIN cache
    THEN [present |-> TRUE, tree |-> cache[key].tree, ts |-> cache[key].ts]
    ELSE NoEntry

\* Map.prototype.set
mapSet(m, k, v) == [x \in DOMAIN m \cup {k} |-> IF x = k THEN v ELSE m[x]]

\* What a response of api.github.com looks like to githubApi: the status and the
\* x-ratelimit-remaining header (the body of a 200 is read from the Server tables).
ApiResponses ==
    { [status |-> 200, remaining |-> "57"], [status |-> 401, remaining |-> "57"],
      [status |-> 403, remaining |-> "0"], [status |-> 403, remaining |-> "57"],
      [status |-> 404, remaining |-> "57"], [status |-> 500, remaining |-> "57"] }

Throw(status, message) == [ok |-> FALSE, status |-> status, message |-> message]
Return(body) == [ok |-> TRUE, status |-> 200, message |-> ""]

\* githubApi, lines 20-42: the error it throws, or ok
githubApi(res) ==
    IF res.status = 401 THEN Throw(401, "Invalid or expired token")
    ELSE IF res.status = 403
         THEN IF res.remaining = "0"
              THEN Throw(403, "Rate limit exceeded")
              ELSE Throw(403, "Forbidden")
    ELSE IF res.status = 404 THEN Throw(404, "Not found")
    ELSE IF ~(res.status >= 200 /\ res.status <= 299)
         THEN Throw(res.status, "GitHub API error")
    ELSE Return(res)

\* fetchNotesTree, lines 75-84: the lookup built from treeData.tree
RECURSIVE buildTree(_, _)
buildTree(entries, tree) ==
    IF entries = << >> THEN tree
    ELSE LET entry == Head(entries) IN
         IF entry.type \in {"blob", "tree"}
         THEN buildTree(Tail(entries),
                        mapSet(tree, entry.path, [type |-> entry.type, sha |-> entry.sha]))
         ELSE buildTree(Tail(entries), tree)

\* tree.get(name): [found, type, sha]
treeGet(tree, name) ==
    IF name \in DOMAIN tree
    THEN [found |-> TRUE, type |-> tree[name].type, sha |-> tree[name].sha]
    ELSE [found |-> FALSE, type |-> "", sha |-> "null"]

\* resolveNoteBlob, lines 95-98: the direct lookup; "null" when it does not hit
directLookup(tree, commitSha) ==
    LET direct == treeGet(tree, commitSha) IN
    IF direct.found /\ direct.type = "blob" THEN direct.sha ELSE "null"

\* resolveNoteBlob, lines 101-106: the fanout directory's tree sha, or "null"
fanoutLookup(tree, commitSha) ==
    LET prefix == slice(commitSha, 0, FanoutLen)
        subtreeEntry == treeGet(tree, prefix) IN
    IF ~subtreeEntry.found \/ subtreeEntry.type # "tree" THEN "null" ELSE subtreeEntry.sha

\* mutant: the subtree is searched for the full SHA, not for the suffix
RECURSIVE subtreeLookup_FullName(_, _)
subtreeLookup_FullName(entries, commitSha) ==
    IF entries = << >> THEN "null"
    ELSE IF Head(entries).path = commitSha /\ Head(entries).type = "blob"
         THEN Head(entries).sha
         ELSE subtreeLookup_FullName(Tail(entries), commitSha)

\* resolveNoteBlob, lines 113-119: first blob of the subtree named by the suffix
RECURSIVE subtreeLookup(_, _)
subtreeLookup(entries, commitSha) ==
    LET suffix == sliceFrom(commitSha, FanoutLen) IN
    IF entries = << >> THEN "null"
    ELSE IF Head(entries).path = suffix /\ Head(entries).type = "blob"
         THEN Head(entries).sha
         ELSE subtreeLookup(Tail(entries), commitSha)

\* fetchBlobContent, lines 128-131
fetchBlobContent(blobData) ==
    IF blobData.encoding = "base64"
    THEN <<"text", blobData.content[2]>>
    ELSE blobData.content

\* getNoteRefs (background.js), lines 152-156
DefaultRefsBg == << RefCommits >>
getNoteRefsBg(st) == IF Len(st.noteRefs) > 0 THEN st.noteRefs ELSE DefaultRefsBg

----------------------------------------------------------------------------
(* handleFetchGitNote as a process.  s = [h, hist, cache, by] is the part  *)
(* of the state one synchronous run of the handler reads and writes.       *)

NoResponse == [keys |-> {}, error |-> "", message |-> "", notes |-> << >>]
ErrorResponse(error, message) ==
    [keys |-> {"error", "message"}, error |-> error, message |-> message, notes |-> << >>]
NotesResponse(results) ==
    [keys |-> {"notes"}, error |-> "", message |-> "", notes |-> results]

NoReq == [op |-> "none", arg |-> "null"]

IdleH == [pc |-> "idle", owner |-> << >>, repo |-> << >>, commitSha |-> << >>,
          token |-> "", refs |-> << >>, i |-> 0, results |-> << >>,
          req |-> NoReq, tree |-> << >>, response |-> NoResponse]

EmptyHist == [apiLog |-> << >>, responses |-> << >>, lookups |-> << >>,
              stores |-> << >>, resolved |-> << >>, fetched |-> << >>,
              cleared |-> FALSE]

Ref(s) == s.h.refs[s.h.i]
Key(s) == cacheKey(s.h.owner, s.h.repo, Ref(s))

\* await githubApi(path, token): the request is sent, the handler waits
IssueApi(s, op, arg) ==
    [s EXCEPT !.h.pc = "api", !.h.req = [op |-> op, arg |-> arg],
              !.hist.apiLog = Append(@, [i |-> s.h.i, op |-> op, arg |-> arg,
                                         owner |-> s.h.owner, repo |-> s.h.repo,
                                         token |-> s.h.token]),
              !.hist.cleared = IF op = "ref" THEN FALSE ELSE @]

Respond(s, response) ==
    [s EXCEPT !.h.pc = "responded", !.h.req = NoReq, !.h.tree = << >>,
              !.h.response = response]

\* handleFetchGitNote, lines 204-216: the catch block's answer to a non-404 error
errorResponse(err) ==
    IF err.status = 401 THEN ErrorResponse("auth_error", err.message)
    ELSE IF err.status = 403 THEN ErrorResponse("rate_limit", err.message)
    ELSE ErrorResponse("api_error", err.message)

\* mutant: a 404 is handled like any other API error
isSkipped_Never(err) == FALSE

\* handleFetchGitNote, line 205: the errors the loop skips
isSkipped(err) == err.status = 404

RECURSIVE ForLoop(_)
RECURSIVE AfterTree(_, _)

\* resolveNoteBlob has returned blobSha ("null": no note) for the current ref
Resolved(s, blobSha, subFetched, subEntries) ==
    [s EXCEPT !.hist.resolved = Append(@, [i |-> s.h.i, commitSha |-> s.h.commitSha,
                                           owner |-> s.h.owner, repo |-> s.h.repo,
                                           ref |-> Ref(s), result |-> blobSha,
                                           subFetched |-> subFetched,
                                           subEntries |-> subEntries])]

\* the loop body is over for the current ref: on to the next one
NextRef(s, outcome) ==
    ForLoop([s EXCEPT !.h.i = @ + 1, !.h.tree = << >>,
                      !.hist.fetched = Append(@, [ref |-> Ref(s), outcome |-> outcome])])

\* fetchGitNote (background.js), lines 143-145: no blob, so the note is null
NoNote(s) == NextRef(s, "null")

\* resolveNoteBlob from line 95 on, with the tree fetchNotesTree returned
AfterTree(s0, tree) ==
    LET s == [s0 EXCEPT !.h.tree = tree]
        direct == directLookup(tree, s.h.commitSha)
        subtreeSha == fanoutLookup(tree, s.h.commitSha) IN
    IF direct # "null" THEN IssueApi(Resolved(s, direct, FALSE, << >>), "blob", direct)
    ELSE IF subtreeSha = "null" THEN NoNote(Resolved(s, "null", FALSE, << >>))
    ELSE IssueApi(s, "subtree", subtreeSha)

\* for (const ref of noteRefs), from the top of iteration s.h.i:
\* fetchNotesTree lines 47-58
ForLoop(s) ==
    IF s.h.i > Len(s.h.refs) THEN Respond(s, NotesResponse(s.h.results))
    ELSE LET cached == cacheGet(s.cache, Key(s))
             hit == isCacheValid(cached, now)
             look == [i |-> s.h.i, owner |-> s.h.owner, repo |-> s.h.repo, ref |-> Ref(s),
                      present |-> cached.present, age |-> now - cached.ts, hit |-> hit,
                      flushed |-> Key(s) \in s.fl,
                      tree |-> cached.tree,
                      by |-> IF cached.present THEN s.by[Key(s)] ELSE << >>]
             s1 == [s EXCEPT !.hist.lookups = Append(@, look)] IN
         IF hit THEN AfterTree(s1, cached.tree)
         ELSE IssueApi(s1, "ref", Ref(s))

\* mutant: the catch block skips every error and goes on with the next ref
Catch_SkipsAll(s0, err) ==
    NextRef([s0 EXCEPT !.hist.cleared = FALSE], "error")

\* the catch block of the loop, lines 204-216
Catch(s0, err) ==
    LET s == [s0 EXCEPT !.hist.cleared = FALSE] IN
    IF isSkipped(err) THEN NextRef(s, "404")
    ELSE Respond(s, errorResponse(err))

\* the handler resumes with the body of a 200 response
Resume(s) ==
    LET op == s.h.req.op
        arg == s.h.req.arg IN
    CASE op = "ref" -> IssueApi(s, "commit", ServerRef(s.h.owner, s.h.repo, arg))
      [] op = "commit" -> IssueApi(s, "tree", ServerCommit(arg))
      [] op = "tree" ->
            LET tree == buildTree(ServerTree(arg), << >>)
                s1 == [s EXCEPT !.cache = mapSet(@, Key(s), [tree |-> tree, ts |-> now]),
                                !.by = mapSet(@, Key(s), <<s.h.owner, s.h.repo, Ref(s)>>),
                                !.fl = @ \ {Key(s)}]
                s2 == [s1 EXCEPT !.hist.stores =
                          Append(@, [i |-> s.h.i, ts |-> s1.cache[Key(s)].ts,
                                     tree |-> s1.cache[Key(s)].tree, at |-> now,
                                     cleared |-> s.hist.cleared]),
                                 !.hist.cleared = FALSE]
            IN AfterTree(s2, tree)
      [] op = "subtree" ->
            LET blobSha == subtreeLookup(ServerTree(arg), s.h.commitSha)
                s1 == Resolved(s, blobSha, TRUE, ServerTree(arg)) IN
            IF blobSha = "null" THEN NoNote(s1) ELSE IssueApi(s1, "blob", blobSha)
      [] op = "blob" ->
            LET content == fetchBlobContent(ServerBlob(arg)) IN
            NextRef([s EXCEPT !.h.results = Append(@, [ref |-> Ref(s), content |-> content])],
                    "content")

\* does the server have what the request in flight asks for
Exists(req, owner, repo) ==
    CASE req.op = "ref" -> ServerRef(owner, repo, req.arg) # "null"
      [] req.op = "commit" -> ServerCommit(req.arg) # "null"
      [] req.op \in {"tree", "subtree"} -> req.arg \in TreeShas
      [] req.op = "blob" -> req.arg \in BlobShas
      [] OTHER -> FALSE

S == [h |-> h, hist |-> hist, cache |-> treeCache, by |-> storedBy, fl |-> flushed]

Commit(s) ==
    /\ h' = s.h
    /\ hist' = s.hist
    /\ treeCache' = s.cache
    /\ storedBy' = s.by
    /\ flushed' = s.fl

----------------------------------------------------------------------------
(* Actions of the background worker *)

\* onMessage FETCH_GIT_NOTE, line 161; handleFetchGitNote up to its first await
OnFetchGitNote(owner, repo, commitSha) ==
    /\ h.pc \in {"idle", "responded"}
    /\ used.requests < MaxRequests
    /\ used' = [used EXCEPT !.requests = @ + 1]
    /\ h' = [IdleH EXCEPT !.pc = "get_token", !.owner = owner, !.repo = repo,
                          !.commitSha = commitSha]
    /\ hist' = EmptyHist
    /\ UNCHANGED <<treeCache, now, storage, storedBy, flushed, notBg>>

\* mutant: the handler goes on without a token
noToken_Never(githubToken) == FALSE

\* handleFetchGitNote, line 185: if (!githubToken)
noToken(githubToken) == githubToken = ""

\* storage.local.get("githubToken") resolves, lines 184-189
TokenRead ==
    /\ h.pc = "get_token"
    /\ IF noToken(storage.githubToken)
       THEN h' = [h EXCEPT !.pc = "responded",
                           !.response = ErrorResponse("no_token", "No GitHub token configured")]
       ELSE h' = [h EXCEPT !.pc = "get_refs", !.token = storage.githubToken]
    /\ UNCHANGED <<treeCache, now, storage, hist, storedBy, flushed, used, notBg>>

\* getNoteRefs resolves, lines 189-192; the loop runs to its first API request
RefsRead ==
    /\ h.pc = "get_refs"
    /\ Commit(ForLoop([S EXCEPT !.h.refs = getNoteRefsBg(storage), !.h.i = 1]))
    /\ UNCHANGED <<now, storage, used, notBg>>

\* api.github.com answers the request in flight
ApiResponds(res) ==
    /\ h.pc = "api"
    /\ res.status = 200 => Exists(h.req, h.owner, h.repo)
    /\ LET r == githubApi(res)
           s == [S EXCEPT !.hist.responses = Append(@, [i |-> h.i, op |-> h.req.op,
                                                        res |-> res])] IN
       IF r.ok THEN Commit(Resume(s)) ELSE Commit(Catch(s, r))
    /\ UNCHANGED <<now, storage, used, notBg>>

\* fetchNotesTree, lines 53-71: the handler awaits one of its three requests
InFetchNotesTree == h.pc = "api" /\ h.req.op \in {"ref", "commit", "tree"}

\* mutant: CLEAR_CACHE removes the expired entries only
mapClear_ExpiredOnly(m) ==
    [k \in {x \in DOMAIN m : now - m[x].ts < CACHE_TTL} |-> m[k]]

\* Map.prototype.clear
mapClear(m) == << >>

\* onMessage CLEAR_CACHE, lines 171-175
OnClearCache ==
    /\ treeCache' = mapClear(treeCache)
    /\ storedBy' = [k \in DOMAIN treeCache' |-> storedBy[k]]
    /\ flushed' = flushed \cup {k \in DOMAIN treeCache :
                                    isCacheValid(cacheGet(treeCache, k), now)}
    /\ hist' = [hist EXCEPT !.cleared = @ \/ InFetchNotesTree]
    /\ UNCHANGED <<now, storage, h, used, notBg>>

\* options.js, lines 26-30: the user saves the token field ("": cleared)
OnSaveToken(token) ==
    /\ token # storage.githubToken
    /\ storage' = [storage EXCEPT !.githubToken = token]
    /\ UNCHANGED <<treeCache, now, h, hist, storedBy, flushed, used, notBg>>

Tokens == {"", "ghp_token"}

TickAmounts == {1, CACHE_TTL - 1}

\* time passes
Tick(d) ==
    /\ used.ticks < MaxTicks
    /\ used' = [used EXCEPT !.ticks = @ + 1]
    /\ now' = now + d
    /\ UNCHANGED <<treeCache, storage, h, hist, storedBy, flushed, notBg>>

RefLists == { << >>, <<RefCommits>>, <<RefCommits, RefTrail>>, <<RefTrail, RefCommits>> }

NextBg ==
    \/ \E r \in Repos, c \in ShaInputs : OnFetchGitNote(r.owner, r.repo, c)
    \/ TokenRead
    \/ RefsRead
    \/ \E res \in ApiResponses : ApiResponds(res)
    \/ OnClearCache
    \/ \E d \in TickAmounts : Tick(d)

\* the commits asked for where the cache and the token are what matters
CacheShas == {ShaA}

\* the background worker with the options page open
NextOptions ==
    \/ \E r \in Repos, c \in CacheShas : OnFetchGitNote(r.owner, r.repo, c)
    \/ TokenRead
    \/ RefsRead
    \/ \E res \in ApiResponses : ApiResponds(res)
    \/ OnClearCache
    \/ \E token \in Tokens : OnSaveToken(token)
    \/ \E d \in TickAmounts : Tick(d)

----------------------------------------------------------------------------
(* content.js: the fetch chain of fetchGitNote / fetchNoteContent, run by   *)
(* the loop of processCommitPage (lines 647-680).                           *)

\* noteRef.replace(/^refs\//, "")
branchName(noteRef) ==
    IF startsWith(noteRef, <<"refs", "/">>) THEN sliceFrom(noteRef, 2) ELSE noteRef

\* fetchNoteContent, lines 108-111: the candidate paths, direct and fanout
paths(noteRef, commitSha) ==
    << branchName(noteRef) \o <<"/">> \o commitSha,
       branchName(noteRef) \o <<"/">> \o slice(commitSha, 0, FanoutLen)
                           \o <<"/">> \o sliceFrom(commitSha, FanoutLen) >>

\* raw.githubusercontent.com/{owner}/{repo}/{path}: the blob the path names,
\* a file of the notes tree or a file of one of its directories, or "null"
RawFile(owner, repo, noteRef, path) ==
    LET rest == sliceFrom(path, Len(branchName(noteRef)) + 1)
        slashes == {k \in 1..Len(rest) : rest[k] = "/"}
        cut == CHOOSE k \in slashes : TRUE
        dir == SubSeq(rest, 1, cut - 1)
        name == SubSeq(rest, cut + 1, Len(rest))
        root == NotesTree(owner, repo, noteRef)
        sub == IF HasEntry(root, dir, "tree")
               THEN ServerTree(EntrySha(root, dir, "tree")) ELSE << >> IN
    IF slashes = {}
    THEN IF HasEntry(root, rest, "blob") THEN EntrySha(root, rest, "blob") ELSE "null"
    ELSE IF Cardinality(slashes) = 1 /\ HasEntry(sub, name, "blob")
         THEN EntrySha(sub, name, "blob")
         ELSE "null"

\* github.com/{owner}/{repo}/tree/{branch}[/{dir}] as JSON: payload.tree.items
TreeItems(entries) ==
    [k \in 1..Len(entries) |->
        [name |-> entries[k].path,
         contentType |-> IF entries[k].type = "blob" THEN "file" ELSE "directory"]]

\* the outcomes of a fetch: an HTTP status, or 0 when the awaited call throws
\* (network error, unreadable body)
FetchStatuses == {200, 401, 403, 404, 0}

\* res.ok
resOk(status) == status >= 200 /\ status <= 299

\* Array.prototype.find: the index of the first element that passes, 0 if none
FindIx(items, Test(_)) ==
    IF \E k \in 1..Len(items) : Test(items[k])
    THEN CHOOSE k \in 1..Len(items) :
            Test(items[k]) /\ \A j \in 1..(k - 1) : ~Test(items[j])
    ELSE 0

NoContent == << >>

IdleFr == [pc |-> "idle", owner |-> << >>, repo |-> << >>, commitSha |-> << >>,
           refs |-> << >>, i |-> 0, results |-> << >>, needsToken |-> FALSE,
           display |-> "none", outcomes |-> << >>, netErr |-> FALSE,
           stage |-> "", target |-> << >>, strat |-> 0, k |-> 0,
           got |-> [used |-> "", stored |-> "", failed |-> FALSE]]

\* getNoteRefs (content.js), lines 208-216
DefaultRefsCs == << RefCommits >>
getNoteRefsCs(st) == IF Len(st.noteRefs) > 0 THEN st.noteRefs ELSE DefaultRefsCs

FRef(c) == c.fr.refs[c.fr.i]

\* which fetchNoteContent call of the current fetchGitNote is running
CallNo(c) == IF c.fr.stage = "direct" THEN 1 ELSE 2

\* mutant: the token is sent by the first strategy, not by the second
strategyToken_Swapped(strat, token) == IF strat = 1 THEN token ELSE ""

\* fetchNoteContent, lines 117 and 130-132: the Authorization token of a strategy
strategyToken(strat, token) == IF strat = 2 THEN token ELSE ""

\* fetchNoteContent, lines 116-117 / 129-132: fetch(url) is called
IssueRaw(c, strat, k) ==
    [c EXCEPT !.fr.pc = "raw", !.fr.strat = strat, !.fr.k = k,
              !.flog = Append(@, [i |-> c.fr.i, call |-> CallNo(c), kind |-> "raw",
                                  host |-> "raw.githubusercontent.com", strat |-> strat,
                                  token |-> strategyToken(strat, c.tok),
                                  cookie |-> FALSE,
                                  path |-> paths(FRef(c), c.fr.target)[k],
                                  res |-> "pending"])]

\* mutant: the listing request carries the stored token
IssueListing_WithToken(c, kind, path) ==
    [c EXCEPT !.fr.pc = kind,
              !.flog = Append(@, [i |-> c.fr.i, call |-> 0, kind |-> kind,
                                  host |-> "github.com", strat |-> 0,
                                  token |-> c.tok, cookie |-> TRUE,
                                  path |-> path, res |-> "pending"])]

\* fetchNotesTreeEntries, lines 74-80, and fetchGitNote, lines 177-183
IssueListing(c, kind, path) ==
    [c EXCEPT !.fr.pc = kind,
              !.flog = Append(@, [i |-> c.fr.i, call |-> 0, kind |-> kind,
                                  host |-> "github.com", strat |-> 0,
                                  token |-> "", cookie |-> TRUE,
                                  path |-> path, res |-> "pending"])]

\* processCommitPage, lines 671-677
finalDisplay(results, needsToken) ==
    IF Len(results) > 0 THEN "notes"
    ELSE IF needsToken THEN "tokenNeeded"
    ELSE "removed"

\* processCommitPage, lines 652-669: the loop body is over for the current
\* ref; fetchGitNote of the next ref starts, or the results are shown
LoopNext(c0, outcome) ==
    LET c == [c0 EXCEPT !.fr.outcomes = Append(@, outcome), !.fr.i = @ + 1] IN
    IF c.fr.i <= Len(c.fr.refs)
    THEN IssueRaw([c EXCEPT !.fr.stage = "direct", !.fr.target = c.fr.commitSha], 1, 1)
    ELSE [c EXCEPT !.fr.pc = "done", !.fr.stage = "", !.fr.target = << >>,
                   !.fr.strat = 0, !.fr.k = 0,
                   !.fr.display = finalDisplay(c.fr.results, c.fr.needsToken)]

\* mutant: no try/catch around fetchGitNote, the error reaches the outer catch
loopCatch_Rethrow(c) ==
    [c EXCEPT !.fr.pc = "done", !.fr.display = "error",
              !.fr.outcomes = Append(@, "throw")]

\* processCommitPage, lines 665-668: catch { continue; }
loopCatch(c) == LoopNext(c, "throw")

\* fetchGitNote returns { content }
ReturnContent(c, content) ==
    LoopNext([c EXCEPT !.fr.results = Append(@, [ref |-> FRef(c), content |-> content])],
             "content")

\* fetchGitNote returns { content: null, needsToken: true }
ReturnNeedsToken(c) == LoopNext([c EXCEPT !.fr.needsToken = TRUE], "needsToken")

\* fetchGitNote returns null
ReturnNull(c) == LoopNext(c, "null")

\* fetchNoteContent has returned to fetchGitNote, lines 149-150, 163-167, 192-199
ContentReturned(c, content) ==
    IF content # NoContent THEN ReturnContent(c, content)
    ELSE IF c.fr.stage = "direct"
         THEN IssueListing(c, "tree", <<"tree", "/">> \o branchName(FRef(c)))
         ELSE ReturnNeedsToken(c)

\* fetchNoteContent, lines 125-138, once getStoredToken has returned
AfterToken(c0) ==
    LET c == [c0 EXCEPT !.fr.got.used = c0.tok, !.fr.got.stored = storage.githubToken] IN
    IF c.tok # "" THEN IssueRaw(c, 2, 1) ELSE ContentReturned(c, NoContent)

\* getStoredToken, lines 91-92: the cached value, or the storage read
GetStoredToken(c) ==
    IF c.tok # "undefined" THEN AfterToken(c) ELSE [c EXCEPT !.fr.pc = "get_token"]

\* fetchNoteContent: the next request after one that did not succeed
NextAttempt(c) ==
    IF c.fr.k < 2 THEN IssueRaw(c, c.fr.strat, c.fr.k + 1)
    ELSE IF c.fr.strat = 1 THEN GetStoredToken(c)
    ELSE ContentReturned(c, NoContent)

\* mutant: a successful response does not end fetchNoteContent
RawDone_NoReturn(c, ok, body) == NextAttempt(c)

\* fetchNoteContent, lines 118 and 133: if (res.ok) return await res.text()
RawDone(c, ok, body) == IF ok THEN ContentReturned(c, body) ELSE NextAttempt(c)

\* mutant: fetch is not wrapped in try/catch, a network error leaves fetchGitNote
RawThrows_Propagate(c) == loopCatch(c)

\* fetchNoteContent, lines 119-121 and 134-136: catch { continue; }
RawThrows(c) == NextAttempt(c)

\* the response of the request in flight is recorded in the log
Answered(c, status) ==
    [c EXCEPT !.flog[Len(c.flog)].res = IF status # 0 /\ resOk(status) THEN "ok" ELSE "fail",
              !.fr.netErr = @ \/ (status = 0 /\ c.fr.pc = "raw")]

\* fetchGitNote, lines 155-204, with the items of the notes tree
AfterEntries(c, entries) ==
    LET commitSha == c.fr.commitSha
        m == FindIx(entries, LAMBDA e : e.name = commitSha \/ startsWith(e.name, commitSha))
        prefix == slice(commitSha, 0, FanoutLen)
        dir == FindIx(entries, LAMBDA e : e.name = prefix /\ e.contentType = "directory")
    IN IF m # 0 /\ entries[m].contentType = "file"
       THEN IssueRaw([c EXCEPT !.fr.stage = "match", !.fr.target = entries[m].name], 1, 1)
       ELSE IF dir # 0
            THEN IssueListing(c, "subtree",
                              <<"tree", "/">> \o branchName(FRef(c)) \o <<"/">> \o prefix)
            ELSE ReturnNull(c)

\* fetchGitNote, lines 186-200, with the items of the fanout directory
AfterSubEntries(c, subEntries) ==
    LET prefix == slice(c.fr.commitSha, 0, FanoutLen)
        suffix == sliceFrom(c.fr.commitSha, FanoutLen)
        m == FindIx(subEntries, LAMBDA e : e.name = suffix \/ startsWith(e.name, suffix))
    IN IF m # 0
       THEN IssueRaw([c EXCEPT !.fr.stage = "fanout",
                               !.fr.target = prefix \o <<"/">> \o subEntries[m].name], 1, 1)
       ELSE ReturnNull(c)

C == [fr |-> fr, flog |-> flog, tok |-> cachedToken]

CommitCs(c) ==
    /\ fr' = c.fr
    /\ flog' = c.flog
    /\ cachedToken' = c.tok

\* processCommitPage, lines 644-648: the container shows the spinner and
\* getNoteRefs is awaited
StartRun(owner, repo, commitSha) ==
    /\ fr.pc \in {"idle", "done"}
    /\ used.pages < MaxPages
    /\ used' = [used EXCEPT !.pages = @ + 1]
    /\ fr' = [IdleFr EXCEPT !.pc = "get_refs", !.owner = owner, !.repo = repo,
                            !.commitSha = commitSha, !.display = "loading"]
    /\ flog' = << >>
    /\ UNCHANGED <<cachedToken, storage, notFetch>>

\* getNoteRefs resolves; the loop calls fetchGitNote for the first ref
RefsReadCs ==
    /\ fr.pc = "get_refs"
    /\ CommitCs(IssueRaw([C EXCEPT !.fr.refs = getNoteRefsCs(storage), !.fr.i = 1,
                                   !.fr.stage = "direct", !.fr.target = fr.commitSha], 1, 1))
    /\ UNCHANGED <<storage, used, notFetch>>

\* raw.githubusercontent.com answers, or the fetch fails
RawResponds(status) ==
    /\ fr.pc = "raw"
    /\ LET path == flog[Len(flog)].path
           file == RawFile(fr.owner, fr.repo, fr.refs[fr.i], path)
           c == Answered(C, status) IN
       /\ status = 200 => file # "null"
       /\ IF status = 0 THEN CommitCs(RawThrows(c))
          ELSE CommitCs(RawDone(c, resOk(status), <<"text", file>>))
    /\ UNCHANGED <<storage, used, notFetch>>

\* getStoredToken, lines 93-99: the storage read resolves (or rejects)
TokenReadCs(fails) ==
    /\ fr.pc = "get_token"
    /\ CommitCs(AfterToken([C EXCEPT !.tok = IF fails THEN "" ELSE storage.githubToken,
                                     !.fr.got.failed = fails]))
    /\ UNCHANGED <<storage, used, notFetch>>

\* github.com answers the tree listing; fetchNotesTreeEntries, lines 82-86
TreeResponds(status, payload) ==
    /\ fr.pc = "tree"
    /\ (status = 200 /\ payload) => ServerRef(fr.owner, fr.repo, fr.refs[fr.i]) # "null"
    /\ LET c == Answered(C, status)
           items == TreeItems(NotesTree(fr.owner, fr.repo, fr.refs[fr.i])) IN
       IF status = 0 THEN CommitCs(loopCatch(c))
       ELSE IF ~resOk(status) \/ ~payload THEN CommitCs(ReturnNull(c))
       ELSE CommitCs(AfterEntries(c, items))
    /\ UNCHANGED <<storage, used, notFetch>>

\* github.com answers the listing of the fanout directory; fetchGitNote, lines 184-201
SubtreeResponds(status, payload) ==
    /\ fr.pc = "subtree"
    /\ LET c == Answered(C, status)
           root == NotesTree(fr.owner, fr.repo, fr.refs[fr.i])
           prefix == slice(fr.commitSha, 0, FanoutLen)
           items == IF payload /\ HasEntry(root, prefix, "tree")
                    THEN TreeItems(ServerTree(EntrySha(root, prefix, "tree")))
                    ELSE << >> IN
       IF status = 0 THEN CommitCs(loopCatch(c))
       ELSE IF ~resOk(status) THEN CommitCs(ReturnNull(c))
       ELSE CommitCs(AfterSubEntries(c, items))
    /\ UNCHANGED <<storage, used, notFetch>>

NextFetch ==
    \/ \E r \in Repos, c \in ShaInputs : StartRun(r.owner, r.repo, c)
    \/ RefsReadCs
    \/ \E st \in FetchStatuses : RawResponds(st)
    \/ \E fails \in BOOLEAN : TokenReadCs(fails)
    \/ \E st \in FetchStatuses, payload \in BOOLEAN : TreeResponds(st, payload)
    \/ \E st \in FetchStatuses, payload \in BOOLEAN : SubtreeResponds(st, payload)

\* the content script fetches while the user saves, changes or removes the
\* token on the options page
NextToken ==
    \/ NextFetch
    \/ \E token \in Tokens : OnSaveToken(token)

----------------------------------------------------------------------------
(* content.js: processCommitPage on a page that navigates.  A call of       *)
(* fetchGitNote is one await here; its outcomes are those of the fetch      *)
(* chain above.                                                             *)

\* two commit pages and a page that is no commit page
Urls == {"A", "B", "N"}

\* parseCommitUrl, lines 8-12, on these
parseCommitUrl(url) == url \in {"A", "B"}

\* findInjectionPoint, lines 19-33: no selector matches, or the first match
\* is #diff-content-parent (prepend), or another one (before)
InjectionModes == {"prepend", "before"}

NoRun == [pc |-> "unused", url |-> "null", refs |-> << >>, i |-> 0,
          results |-> << >>, needsToken |-> FALSE]

NoMut == [run |-> 0, url |-> "null", loc |-> "null", op |-> "none",
          target |-> 0, inDocument |-> FALSE]

FetchOutcomes == {"content", "needsToken", "null", "throw"}

\* a change of the document or of a container by the call `run`
Mutation(s, run, url, op, target) ==
    [s EXCEPT !.mut = [run |-> run, url |-> url, loc |-> location, op |-> op,
                       target |-> target,
                       inDocument |-> \E k \in 1..Len(s.doc.dom) : s.doc.dom[k] = target]]

\* removeExisting, lines 14-17: the first element with the id leaves the document
removeExisting(s, run, url) ==
    IF s.doc.dom = << >> THEN s
    ELSE [Mutation(s, run, url, "remove", Head(s.doc.dom)) EXCEPT !.doc.dom = Tail(@)]

\* injectContainer, lines 35-44, and showLoading, lines 444-456
injectContainer(s, run, url) ==
    LET s1 == [s EXCEPT !.doc.dom = IF s.doc.inj = "prepend" THEN <<run>> \o @
                                    ELSE Append(@, run),
                        !.doc.elems[run] = "loading",
                        !.doc.boxes[run] = << >>]
    IN Mutation(s1, run, url, "inject", run)

\* container.innerHTML = ..., in showNotes, showTokenNeeded and showError
fill(s, run, url, content) ==
    Mutation([s EXCEPT !.doc.elems[run] = content], run, url, content, run)

\* processCommitPage, line 642: if (location.href !== url) return
isStale(url) == location # url

\* processCommitPage, lines 641-648, once waitForInjectionPoint has resolved
\* with an injection point
AfterInjection(s, run, url) ==
    IF isStale(url) THEN [s EXCEPT !.runs[run].pc = "done"]
    ELSE [injectContainer(s, run, url) EXCEPT !.runs[run].pc = "get_refs"]

\* processCommitPage, lines 627-640: a call, up to its first await
processCommitPage(s) ==
    LET url == location
        run == s.n + 1 IN
    IF url = s.lpu THEN s
    ELSE LET s1 == [s EXCEPT !.lpu = url] IN
         IF ~parseCommitUrl(url) THEN removeExisting(s1, 0, url)
         ELSE LET s2 == [removeExisting(s1, run, url)
                            EXCEPT !.n = run,
                                   !.runs[run] = [NoRun EXCEPT !.pc = "wait_injection",
                                                               !.url = url]]
              IN IF s2.doc.inj # "none" THEN AfterInjection(s2, run, url) ELSE s2

\* processCommitPage, lines 660-664: the loop body after fetchGitNote
loopBody(r, outcome) ==
    IF outcome = "content"
    THEN [r EXCEPT !.results = Append(@, r.refs[r.i]), !.i = @ + 1]
    ELSE IF outcome = "needsToken" THEN [r EXCEPT !.needsToken = TRUE, !.i = @ + 1]
    ELSE [r EXCEPT !.i = @ + 1]

\* showNotes(container, notes), lines 460-467 and 562: no note, and the
\* element with the id leaves the document; else the container gets one box
\* for each note, in the order of the array
showNotesIn(s, run, url, notes) ==
    IF Len(notes) = 0 THEN removeExisting(s, run, url)
    ELSE fill([s EXCEPT !.doc.boxes[run] = notes], run, url, "notes")

\* processCommitPage, lines 671-677, with showNotes, showTokenNeeded
showResults(s, run) ==
    LET r == s.runs[run]
        shown == finalDisplay(r.results, r.needsToken) IN
    IF shown = "removed" THEN removeExisting(s, run, r.url)
    ELSE IF shown = "notes" THEN showNotesIn(s, run, r.url, r.results)
    ELSE fill(s, run, r.url, shown)

P == [lpu |-> lastProcessedUrl, doc |-> doc, runs |-> runs,
      n |-> Cardinality({r \in DOMAIN runs : runs[r].pc # "unused"}), mut |-> lastMut]

CommitPage(s) ==
    /\ lastProcessedUrl' = s.lpu
    /\ doc' = s.doc
    /\ runs' = s.runs
    /\ lastMut' = s.mut

RunsLeft == \E r \in DOMAIN runs : runs[r].pc = "unused"

\* the browser opens a page of github.com
PageOpens(url, inj) ==
    /\ ~env.opened
    /\ env' = [env EXCEPT !.opened = TRUE]
    /\ location' = url
    /\ doc' = [doc EXCEPT !.inj = inj]
    /\ UNCHANGED <<lastProcessedUrl, currentUrl, runs, lastMut, storage, used, notPage>>

\* the content script is evaluated: lines 684 and 693-701
ScriptLoads ==
    /\ env.opened /\ ~env.loaded
    /\ env' = [env EXCEPT !.loaded = TRUE]
    /\ currentUrl' = location
    /\ CommitPage(processCommitPage(P))
    /\ UNCHANGED <<location, storage, used, notPage>>

\* the user follows a link: Turbo changes the URL, then renders the page
Navigate(url) ==
    /\ env.loaded
    /\ url # location
    /\ used.navs < MaxNavs
    /\ used' = [used EXCEPT !.navs = @ + 1]
    /\ location' = url
    /\ env' = [env EXCEPT !.turbo = TRUE, !.render = TRUE]
    /\ UNCHANGED <<lastProcessedUrl, currentUrl, doc, runs, lastMut, storage, notPage>>

\* the page renders: the injection point is there or not, and the containers
\* of the page before are kept or dropped with the replaced body
PageRenders(inj, keep) ==
    /\ env.render
    /\ env' = [env EXCEPT !.render = FALSE]
    /\ doc' = [doc EXCEPT !.inj = inj, !.dom = IF keep THEN @ ELSE << >>]
    /\ UNCHANGED <<location, lastProcessedUrl, currentUrl, runs, lastMut, storage, used,
                   notPage>>

\* the page goes on loading: the injection point appears
InjectionAppears(inj) ==
    /\ env.opened
    /\ doc.inj = "none"
    /\ ~env.render
    /\ doc' = [doc EXCEPT !.inj = inj]
    /\ UNCHANGED <<location, lastProcessedUrl, currentUrl, runs, env, lastMut, storage,
                   used, notPage>>

\* turbo:load, lines 687-690
TurboLoad ==
    /\ env.loaded /\ env.turbo /\ ~env.render
    /\ RunsLeft
    /\ env' = [env EXCEPT !.turbo = FALSE]
    /\ CommitPage(processCommitPage([P EXCEPT !.lpu = "null"]))
    /\ UNCHANGED <<location, currentUrl, storage, used, notPage>>

\* the URL-change MutationObserver, lines 694-700
UrlObserver ==
    /\ env.loaded
    /\ location # currentUrl
    /\ RunsLeft
    /\ currentUrl' = location
    /\ CommitPage(processCommitPage([P EXCEPT !.lpu = "null"]))
    /\ UNCHANGED <<location, env, storage, used, notPage>>

\* waitForInjectionPoint, lines 51-57: its observer finds the injection point
InjectionFound(run) ==
    /\ runs[run].pc = "wait_injection"
    /\ doc.inj # "none"
    /\ CommitPage(AfterInjection(P, run, runs[run].url))
    /\ UNCHANGED <<location, currentUrl, env, storage, used, notPage>>

\* waitForInjectionPoint, lines 60-63: the timeout resolves it with null.  Its
\* observer watches the body of the page it started on, so the timeout can
\* win even when the page rendered since has an injection point.
InjectionTimeout(run) ==
    /\ runs[run].pc = "wait_injection"
    /\ runs' = [runs EXCEPT ![run].pc = "done"]
    /\ UNCHANGED <<location, lastProcessedUrl, currentUrl, doc, env, lastMut, storage,
                   used, notPage>>

\* processCommitPage, lines 648-652: getNoteRefs resolves
RefsReadPage(run) ==
    /\ runs[run].pc = "get_refs"
    /\ runs' = [runs EXCEPT ![run].pc = "fetch", ![run].refs = getNoteRefsCs(storage),
                            ![run].i = 1]
    /\ UNCHANGED <<location, lastProcessedUrl, currentUrl, doc, env, lastMut, storage,
                   used, notPage>>

\* processCommitPage, lines 652-677: fetchGitNote of the current ref is over
FetchReturns(run, outcome) ==
    /\ runs[run].pc = "fetch"
    /\ LET r == loopBody(runs[run], outcome)
           s == [P EXCEPT !.runs[run] = r] IN
       IF r.i <= Len(r.refs) THEN CommitPage(s)
       ELSE CommitPage(showResults([s EXCEPT !.runs[run].pc = "done"], run))
    /\ UNCHANGED <<location, currentUrl, env, storage, used, notPage>>

\* background.js, lines 160-181: the branch of the message listener that
\* takes a message of this type; "none": the listener returns undefined
onMessage(type) ==
    IF type = "FETCH_GIT_NOTE" THEN "handleFetchGitNote"
    ELSE IF type = "CHECK_AUTH" THEN "handleCheckAuth"
    ELSE IF type = "CLEAR_CACHE" THEN "treeCache.clear"
    ELSE IF type = "GET_NOTE_REFS" THEN "getNoteRefs"
    ELSE "none"

\* the branches of the listener that call browser.runtime.openOptionsPage()
OpensOptionsPage == {}

\* showTokenNeeded, lines 584-587: the user clicks the settings link of the
\* token-needed box; the listener of the background worker gets OPEN_OPTIONS
SettingsLinkClick ==
    /\ env.sent = "none"
    /\ \E k \in 1..Len(doc.dom) : doc.elems[doc.dom[k]] = "tokenNeeded"
    /\ env' = [env EXCEPT !.sent = "OPEN_OPTIONS",
                          !.handledBy = onMessage("OPEN_OPTIONS"),
                          !.optionsOpen = onMessage("OPEN_OPTIONS") \in OpensOptionsPage]
    /\ UNCHANGED <<location, lastProcessedUrl, currentUrl, doc, runs, lastMut, storage,
                   used, notPage>>

NextPage ==
    \/ SettingsLinkClick
    \/ \E url \in Urls, inj \in InjectionModes \cup {"none"} : PageOpens(url, inj)
    \/ ScriptLoads
    \/ \E url \in Urls : Navigate(url)
    \/ \E inj \in InjectionModes \cup {"none"}, keep \in BOOLEAN : PageRenders(inj, keep)
    \/ \E inj \in InjectionModes : InjectionAppears(inj)
    \/ TurboLoad
    \/ UrlObserver
    \/ \E run \in 1..MaxRuns : InjectionFound(run)
    \/ \E run \in 1..MaxRuns : InjectionTimeout(run)
    \/ \E run \in 1..MaxRuns : RefsReadPage(run)
    \/ \E run \in 1..MaxRuns, outcome \in FetchOutcomes : FetchReturns(run, outcome)

----------------------------------------------------------------------------
(* content.js: format detection.  A string is a sequence of characters.    *)

Digits == {"0", "1", "2", "3", "4", "5", "6", "7", "8", "9"}
Letters == {"a", "b", "c", "d", "e", "f", "g", "h", "i", "j", "k", "l", "m",
            "n", "o", "p", "q", "r", "s", "t", "u", "v", "w", "x", "y", "z",
            "A", "B", "C", "D", "E", "F", "G", "H", "I", "J", "K", "L", "M",
            "N", "O", "P", "Q", "R", "S", "T", "U", "V", "W", "X", "Y", "Z"}

\* \s, and what String.prototype.trim removes
Whitespace == {" ", "\n", "\t", "\r"}

\* the characters after which ^ matches under the m flag, and before which $ does
LineTerminators == {"\n", "\r"}

\* s[p], or "" past the end of s
At(s, p) == IF p >= 1 /\ p <= Len(s) THEN s[p] ELSE ""

\* does s hold the characters of t from position p on
HasAt(s, p, t) == \A j \in 1..Len(t) : At(s, p + j - 1) = t[j]

\* String.prototype.trim
trim(s) ==
    LET ink == {k \in 1..Len(s) : s[k] \notin Whitespace} IN
    IF ink = {} THEN << >>
    ELSE SubSeq(s, CHOOSE k \in ink : \A j \in ink : k <= j,
                   CHOOSE k \in ink : \A j \in ink : k >= j)

\* the positions where ^ matches (m flag)
LineStarts(s) == {p \in 1..Len(s) : p = 1 \/ s[p - 1] \in LineTerminators}

\* where $ matches (m flag): p is the last character of its line
LineEnd(s, p) == p = Len(s) \/ At(s, p + 1) \in LineTerminators

\* /^#{1,6}\s/m
reHeading(s) ==
    \E p \in LineStarts(s), n \in 1..6 :
        /\ \A j \in 0..(n - 1) : At(s, p + j) = "#"
        /\ At(s, p + n) \in Whitespace

\* /\*\*[^*]+\*\*/m
reBold(s) ==
    \E i, j \in 1..Len(s) :
        /\ j >= i + 3
        /\ HasAt(s, i, <<"*", "*">>)
        /\ HasAt(s, j, <<"*", "*">>)
        /\ \A k \in (i + 2)..(j - 1) : s[k] # "*"

\* /^\|.+\|$/m
reTable(s) ==
    \E p \in LineStarts(s), e \in 1..Len(s) :
        /\ e >= p + 2
        /\ s[p] = "|" /\ s[e] = "|"
        /\ LineEnd(s, e)
        /\ \A k \in (p + 1)..(e - 1) : s[k] \notin LineTerminators

\* /^[-*]\s/m
reUnorderedList(s) ==
    \E p \in LineStarts(s) : s[p] \in {"-", "*"} /\ At(s, p + 1) \in Whitespace

\* /^\d+\.\s/m
reOrderedList(s) ==
    \E p \in LineStarts(s), n \in 1..Len(s) :
        /\ \A j \in 0..(n - 1) : At(s, p + j) \in Digits
        /\ At(s, p + n) = "."
        /\ At(s, p + n + 1) \in Whitespace

\* the grave accent, which a TLA+ string cannot hold
Backtick == "GRAVE"

\* the code-fence test: three grave accents at a line start (m flag)
reCodeFence(s) == \E p \in LineStarts(s) : HasAt(s, p, <<Backtick, Backtick, Backtick>>)

\* /<!--.*-->/m
reHtmlComment(s) ==
    \E i, j \in 1..Len(s) :
        /\ j >= i + 4
        /\ HasAt(s, i, <<"<", "!", "-", "-">>)
        /\ HasAt(s, j, <<"-", "-", ">">>)
        /\ \A k \in (i + 4)..(j - 1) : s[k] \notin LineTerminators

\* /^[a-zA-Z_][a-zA-Z0-9_]*:\s/gm: the positions where it matches.  A match
\* lies within one line and the character after it, so no two overlap.
yamlKeyMatches(s) ==
    {p \in LineStarts(s) :
        /\ s[p] \in Letters \cup {"_"}
        /\ \E n \in 0..Len(s) :
            /\ \A j \in 1..n : At(s, p + j) \in Letters \cup Digits \cup {"_"}
            /\ At(s, p + n + 1) = ":"
            /\ At(s, p + n + 2) \in Whitespace}

----------------------------------------------------------------------------
(* JSON.parse, as far as detectFormat uses it: does the text parse.  Each   *)
(* parser takes the position it starts at and gives the position after     *)
(* what it has read, or 0 when the text is no JSON there.                  *)

JsonWhitespace == {" ", "\n", "\t", "\r"}
HexDigits == Digits \cup {"a", "b", "c", "d", "e", "f", "A", "B", "C", "D", "E", "F"}
JsonEscapes == {"\"", "\\", "/", "b", "f", "n", "r", "t"}

\* the first position from p on that holds none of the characters of set
SkipAll(s, p, set) ==
    CHOOSE q \in p..(Len(s) + 1) :
        /\ At(s, q) \notin set
        /\ \A k \in p..(q - 1) : s[k] \in set

skipWs(s, p) == SkipAll(s, p, JsonWhitespace)

\* a number: -? (0 | [1-9][0-9]*) (. [0-9]+)? ([eE] [+-]? [0-9]+)?
parseNumber(s, p) ==
    LET i0 == IF At(s, p) = "-" THEN p + 1 ELSE p
        i1 == IF At(s, i0) = "0" THEN i0 + 1 ELSE SkipAll(s, i0, Digits)
        f0 == i1 + 1
        f1 == SkipAll(s, f0, Digits)
        i2 == IF At(s, i1) = "." THEN (IF f1 > f0 THEN f1 ELSE 0) ELSE i1
        e0 == IF At(s, i2 + 1) \in {"+", "-"} THEN i2 + 2 ELSE i2 + 1
        e1 == SkipAll(s, e0, Digits)
    IN IF i1 = i0 THEN 0
       ELSE IF i2 = 0 THEN 0
       ELSE IF At(s, i2) \in {"e", "E"} THEN (IF e1 > e0 THEN e1 ELSE 0)
       ELSE i2

RECURSIVE parseString(_, _)
\* a string, from the position after its opening quote
parseString(s, p) ==
    LET c == At(s, p) IN
    IF c = "" \/ c \in {"\n", "\t", "\r"} THEN 0
    ELSE IF c = "\"" THEN p + 1
    ELSE IF c # "\\" THEN parseString(s, p + 1)
    ELSE IF At(s, p + 1) \in JsonEscapes THEN parseString(s, p + 2)
    ELSE IF At(s, p + 1) = "u" /\ \A j \in 2..5 : At(s, p + j) \in HexDigits
         THEN parseString(s, p + 6)
    ELSE 0

RECURSIVE parseValue(_, _)
RECURSIVE parseElements(_, _)
RECURSIVE parseMembers(_, _)

\* the elements of an array, from the first element on
parseElements(s, p) ==
    LET v == parseValue(s, p)
        q == IF v = 0 THEN 0 ELSE skipWs(s, v) IN
    IF v = 0 THEN 0
    ELSE IF At(s, q) = "]" THEN q + 1
    ELSE IF At(s, q) = "," THEN parseElements(s, skipWs(s, q + 1))
    ELSE 0

\* the members of an object, from the first key on
parseMembers(s, p) ==
    LET k == IF At(s, p) = "\"" THEN parseString(s, p + 1) ELSE 0
        c == IF k = 0 THEN 0 ELSE skipWs(s, k)
        v == IF k = 0 \/ At(s, c) # ":" THEN 0 ELSE parseValue(s, skipWs(s, c + 1))
        q == IF v = 0 THEN 0 ELSE skipWs(s, v) IN
    IF v = 0 THEN 0
    ELSE IF At(s, q) = "}" THEN q + 1
    ELSE IF At(s, q) = "," THEN parseMembers(s, skipWs(s, q + 1))
    ELSE 0

parseValue(s, p) ==
    LET c == At(s, p) IN
    IF c = "{"
    THEN IF At(s, skipWs(s, p + 1)) = "}" THEN skipWs(s, p + 1) + 1
         ELSE parseMembers(s, skipWs(s, p + 1))
    ELSE IF c = "["
    THEN IF At(s, skipWs(s, p + 1)) = "]" THEN skipWs(s, p + 1) + 1
         ELSE parseElements(s, skipWs(s, p + 1))
    ELSE IF c = "\"" THEN parseString(s, p + 1)
    ELSE IF c = "-" \/ c \in Digits THEN parseNumber(s, p)
    ELSE IF HasAt(s, p, <<"t", "r", "u", "e">>) THEN p + 4
    ELSE IF HasAt(s, p, <<"f", "a", "l", "s", "e">>) THEN p + 5
    ELSE IF HasAt(s, p, <<"n", "u", "l", "l">>) THEN p + 4
    ELSE 0

\* JSON.parse(text) returns (TRUE) or throws a SyntaxError (FALSE)
jsonParses(text) ==
    LET e == parseValue(text, skipWs(text, 1)) IN
    e # 0 /\ skipWs(text, e) = Len(text) + 1

\* mutant: the SyntaxError of JSON.parse is not caught
detectFormat_NoCatch(content) ==
    LET trimmed == trim(content) IN
    IF At(trimmed, 1) \in {"[", "{"}
    THEN IF jsonParses(trimmed) THEN "json" ELSE "throws"
    ELSE IF reHeading(trimmed) \/ reBold(trimmed) \/ reTable(trimmed)
            \/ reUnorderedList(trimmed) \/ reOrderedList(trimmed)
            \/ reCodeFence(trimmed) \/ reHtmlComment(trimmed)
    THEN "markdown"
    ELSE IF Cardinality(yamlKeyMatches(trimmed)) >= 2 THEN "yaml"
    ELSE "plain"

\* mutant: the markdown patterns are tried before JSON
detectFormat_MarkdownFirst(content) ==
    LET trimmed == trim(content) IN
    IF reHeading(trimmed) \/ reBold(trimmed) \/ reTable(trimmed)
       \/ reUnorderedList(trimmed) \/ reOrderedList(trimmed)
       \/ reCodeFence(trimmed) \/ reHtmlComment(trimmed)
    THEN "markdown"
    ELSE IF At(trimmed, 1) \in {"[", "{"} /\ jsonParses(trimmed) THEN "json"
    ELSE IF Cardinality(yamlKeyMatches(trimmed)) >= 2 THEN "yaml"
    ELSE "plain"

\* detectFormat, content.js lines 220-255
detectFormat(content) ==
    LET trimmed == trim(content) IN
    IF At(trimmed, 1) \in {"[", "{"} /\ jsonParses(trimmed) THEN "json"
    ELSE IF reHeading(trimmed) \/ reBold(trimmed) \/ reTable(trimmed)
            \/ reUnorderedList(trimmed) \/ reOrderedList(trimmed)
            \/ reCodeFence(trimmed) \/ reHtmlComment(trimmed)
    THEN "markdown"
    ELSE IF yamlKeyMatches(trimmed) # {} /\ Cardinality(yamlKeyMatches(trimmed)) >= 2
    THEN "yaml"
    ELSE "plain"

----------------------------------------------------------------------------
(* Note contents: one or two lines, each from a list that holds, for every *)
(* pattern detectFormat knows, lines that have it and lines that just miss *)
(* it.                                                                     *)

NoteLines ==
    { << >>,
      <<" ">>,
      <<"\t">>,
      <<"h", "i">>,
      <<"a", ":", " ", "b">>,
      <<"b", "_", "1", ":", " ", "c">>,
      <<"a", ":">>,
      <<"a", ":", "b">>,
      <<"1", "a", ":", " ", "b">>,
      <<" ", "a", ":", " ", "b">>,
      <<"a", ":", " ", "*", "*", "b", "*", "*">>,
      <<"#", " ", "T">>,
      <<"#", "T">>,
      <<"#", "#", "#", "#", "#", "#", " ", "T">>,
      <<"#", "#", "#", "#", "#", "#", "#", " ", "T">>,
      <<"#">>,
      <<"*", "*", "b", "*", "*">>,
      <<"*", "*", "*", "*">>,
      <<"*", "*", "b">>,
      <<"|", "a", "|", "b", "|">>,
      <<"|", "|">>,
      <<"|", "a", "|", " ">>,
      <<"-", " ", "x">>,
      <<"-", "x">>,
      <<"-">>,
      <<"*", " ", "x">>,
      <<"1", "2", ".", " ", "x">>,
      <<"1", ".", "x">>,
      <<Backtick, Backtick, Backtick, "j", "s">>,
      <<Backtick, Backtick>>,
      <<" ", Backtick, Backtick, Backtick>>,
      <<"<", "!", "-", "-", "c", "-", "-", ">">>,
      <<"<", "!", "-", "-", "-", ">">>,
      <<"<", "!", "-", "-", " ", "c">>,
      <<"-", "-", ">">>,
      <<"{", "}">>,
      <<"[", "1", ",", " ", "2", "]">>,
      <<"[", "1", ",">>,
      <<"2", "]">>,
      <<"{", "\"", "k", "\"", ":", " ", "\"", "v", "\"", "}">>,
      <<"{", "\"", "k", "\"", ":", " ", "\"", "*", "*", "b", "*", "*", "\"", "}">>,
      <<"{", "n", "o", "t", " ", "j", "s", "o", "n", "}">>,
      <<"{", "a", ":", " ", "1", "}">>,
      <<"[", "1", ",", "]">>,
      <<"[", "0", "1", "]">>,
      <<"[", "-", "1", ".", "5", "e", "+", "3", ",", "t", "r", "u", "e", ",", "n", "u", "l", "l", "]">>,
      <<"[", "\"", "\\", "n", "\\", "u", "0", "0", "e", "9", "\"", "]">>,
      <<"[", "\"", "\t", "\"", "]">>,
      <<"[", "\"", "\\", "x", "\"", "]">>,
      <<"[", "1", "]", " ", "x">>,
      <<"[">> }

\* the contents: one line, or two lines joined by a line feed
NoteContents ==
    NoteLines \cup {a \o <<"\n">> \o b : a \in NoteLines, b \in NoteLines}

Formats == {"json", "markdown", "yaml", "plain"}

\* renderContentToHtml / showNotes call detectFormat on the content of a note
DetectFormat(content) ==
    /\ used.notes < MaxNotes
    /\ used' = [used EXCEPT !.notes = @ + 1]
    /\ fmt' = [content |-> content, format |-> detectFormat(content), calls |-> 1]
    /\ UNCHANGED <<parsed, fanout, rendered, box, storage, notNote>>

\* detectFormat is called again on the same content
DetectFormatAgain ==
    /\ fmt.calls = 1
    /\ fmt' = [fmt EXCEPT !.format = detectFormat(fmt.content), !.calls = 2]
    /\ UNCHANGED <<parsed, fanout, rendered, box, storage, used, notNote>>

NextNote ==
    \/ \E content \in NoteContents : DetectFormat(content)
    \/ DetectFormatAgain

----------------------------------------------------------------------------
(* The fanout split of a commit SHA: background.js lines 101-102, and the  *)
(* second candidate path of fetchNoteContent, content.js lines 108-111.    *)

HexSample == {"0", "9", "a", "F"}

\* 40-character SHAs that differ in the first, the second, a middle or the
\* last character
ShaPool ==
    {<<a, b>> \o Rep(c, ShaLen - 3) \o <<d>> :
        a \in HexSample, b \in HexSample, c \in HexSample, d \in HexSample}

\* resolveNoteBlob splits commitSha; fetchNoteContent builds the fanout path
SplitSha(commitSha) ==
    /\ fanout' = [sha |-> commitSha,
                 prefix |-> slice(commitSha, 0, FanoutLen),
                 suffix |-> sliceFrom(commitSha, FanoutLen),
                 path |-> paths(RefCommits, commitSha)[2]]
    /\ UNCHANGED <<parsed, fmt, rendered, box, storage, used, notNote>>

NextSplit == \E commitSha \in ShaPool : SplitSha(commitSha)

----------------------------------------------------------------------------
(* Rendering: escapeHtml and renderContentToHtml.  A string is a sequence  *)
(* of characters; an HTML tag name, attribute name or URL scheme of a      *)
(* Markdown note may be written as one word.                               *)

\* U+00A0 and U+0008, which a TLA+ string cannot hold
Nbsp == "NBSP"
Backspace == "BS"

RECURSIVE Concat(_)
\* the concatenation of the strings of a sequence, by halves
Concat(ss) ==
    IF ss = << >> THEN << >>
    ELSE IF Len(ss) = 1 THEN ss[1]
    ELSE Concat(SubSeq(ss, 1, Len(ss) \div 2))
            \o Concat(SubSeq(ss, Len(ss) \div 2 + 1, Len(ss)))

\* Array.prototype.join
join(ss, sep) == Concat([i \in 1..Len(ss) |-> IF i = 1 THEN ss[i] ELSE sep \o ss[i]])

\* String.prototype.split with a one-character separator
split(s, sep) ==
    LET cuts == {p \in 1..Len(s) : s[p] = sep}
        n == Cardinality(cuts)
        cut(k) == IF k = 0 THEN 0
                  ELSE IF k = n + 1 THEN Len(s) + 1
                  ELSE CHOOSE p \in cuts : Cardinality({q \in cuts : q < p}) = k - 1
    IN [k \in 1..(n + 1) |-> SubSeq(s, cut(k - 1) + 1, cut(k) - 1)]

\* the serialisation of one character of a text node
escapeChar(c) ==
    CASE c = "&" -> <<"&", "a", "m", "p", ";">>
      [] c = "<" -> <<"&", "l", "t", ";">>
      [] c = ">" -> <<"&", "g", "t", ";">>
      [] c = Nbsp -> <<"&", "n", "b", "s", "p", ";">>
      [] OTHER -> <<c>>

\* mutant: the text is returned as it is
escapeHtml_Raw(str) == str

\* div.textContent = str; return div.innerHTML
escapeHtml(str) == Concat([i \in 1..Len(str) |-> escapeChar(str[i])])

----------------------------------------------------------------------------
(* JSON.parse and JSON.stringify(value, null, 2) as the json case uses     *)
(* them.  A value is [t, v]: a number or literal with its characters, a    *)
(* string with its decoded characters, an array with its elements, an      *)
(* object with its properties [k, v] in property order.  A number is kept *)
(* as Number::toString writes it.                                          *)

lowerHex(c) ==
    CASE c = "A" -> "a" [] c = "B" -> "b" [] c = "C" -> "c"
      [] c = "D" -> "d" [] c = "E" -> "e" [] c = "F" -> "f" [] OTHER -> c

\* the character of a \uXXXX escape; a character the model has no string
\* for is the word U+xxxx
unicodeChar(hex) ==
    LET x == [j \in 1..4 |-> lowerHex(hex[j])] IN
    CASE x = <<"0", "0", "3", "c">> -> "<"
      [] x = <<"0", "0", "3", "e">> -> ">"
      [] x = <<"0", "0", "2", "6">> -> "&"
      [] x = <<"0", "0", "2", "2">> -> "\""
      [] x = <<"0", "0", "5", "c">> -> "\\"
      [] x = <<"0", "0", "2", "0">> -> " "
      [] x = <<"0", "0", "0", "a">> -> "\n"
      [] x = <<"0", "0", "0", "9">> -> "\t"
      [] x = <<"0", "0", "0", "d">> -> "\r"
      [] x = <<"0", "0", "0", "c">> -> "\f"
      [] x = <<"0", "0", "0", "8">> -> Backspace
      [] x = <<"0", "0", "a", "0">> -> Nbsp
      [] x = <<"0", "0", "4", "1">> -> "A"
      [] OTHER -> "U+" \o x[1] \o x[2] \o x[3] \o x[4]

\* the character of a two-character escape
simpleEscape(c) ==
    CASE c = "n" -> "\n" [] c = "t" -> "\t" [] c = "r" -> "\r"
      [] c = "f" -> "\f" [] c = "b" -> Backspace [] OTHER -> c

RECURSIVE readString(_, _)
\* the characters of a string literal, from the position after its opening
\* quote: the run up to the next quote or backslash, then the escape
readString(s, p) ==
    LET q == SkipAll(s, p, {s[k] : k \in 1..Len(s)} \ {"\"", "\\"})
        run == SubSeq(s, p, q - 1) IN
    IF s[q] = "\"" THEN run
    ELSE IF s[q + 1] = "u"
         THEN run \o <<unicodeChar(SubSeq(s, q + 2, q + 5))>> \o readString(s, q + 6)
    ELSE run \o <<simpleEscape(s[q + 1])>> \o readString(s, q + 2)

\* an array index as a property key: 0, or digits with no leading zero
isIndexKey(k) ==
    /\ Len(k) \in 1..9
    /\ \A j \in 1..Len(k) : k[j] \in Digits
    /\ Len(k) > 1 => k[1] # "0"

digitValue(c) ==
    CASE c = "0" -> 0 [] c = "1" -> 1 [] c = "2" -> 2 [] c = "3" -> 3 [] c = "4" -> 4
      [] c = "5" -> 5 [] c = "6" -> 6 [] c = "7" -> 7 [] c = "8" -> 8 [] c = "9" -> 9

RECURSIVE indexValue(_)
indexValue(k) ==
    IF k = << >> THEN 0
    ELSE 10 * indexValue(SubSeq(k, 1, Len(k) - 1)) + digitValue(k[Len(k)])

\* the properties of the object that the members create, in property order:
\* a repeated key keeps its first place and takes its last value; array
\* indices come first in ascending order, then the other keys as inserted
defineProperties(members) ==
    LET first == {i \in 1..Len(members) :
                     \A j \in 1..(i - 1) : members[j].k # members[i].k}
        last(i) == CHOOSE j \in 1..Len(members) :
                       /\ members[j].k = members[i].k
                       /\ \A l \in (j + 1)..Len(members) : members[l].k # members[i].k
        before(j, i) ==
            LET kj == members[j].k
                ki == members[i].k IN
            IF isIndexKey(kj) /\ isIndexKey(ki) THEN indexValue(kj) < indexValue(ki)
            ELSE IF isIndexKey(kj) # isIndexKey(ki) THEN isIndexKey(kj)
            ELSE j < i
        at(r) == CHOOSE i \in first : Cardinality({j \in first : before(j, i)}) = r - 1
    IN [r \in 1..Cardinality(first) |-> [k |-> members[at(r)].k, v |-> members[last(at(r))].v]]

\* Number::toString of a number literal with no exponent and at most 15
\* digits: no sign on zero, no trailing zeros in the fraction
numberToString(lit) ==
    LET neg == lit[1] = "-"
        abs == IF neg THEN Tail(lit) ELSE lit
        dots == {p \in 1..Len(abs) : abs[p] = "."}
        dot == IF dots = {} THEN Len(abs) + 1 ELSE CHOOSE p \in dots : TRUE
        int == SubSeq(abs, 1, dot - 1)
        frac == SubSeq(abs, dot + 1, Len(abs))
        keep == {p \in 1..Len(frac) : frac[p] # "0"}
        top == IF keep = {} THEN 0 ELSE CHOOSE p \in keep : \A q \in keep : q <= p
        mag == IF top = 0 THEN int ELSE int \o <<".">> \o SubSeq(frac, 1, top)
    IN IF neg /\ mag # <<"0">> THEN <<"-">> \o mag ELSE mag

RECURSIVE valueAt(_, _)
RECURSIVE elementsAt(_, _)
RECURSIVE membersAt(_, _)

\* the elements of an array, from the first element on
elementsAt(s, p) ==
    LET q == skipWs(s, parseValue(s, p)) IN
    <<valueAt(s, p)>> \o
        (IF s[q] = "," THEN elementsAt(s, skipWs(s, q + 1)) ELSE << >>)

\* the members of an object, from the first key on
membersAt(s, p) ==
    LET c == skipWs(s, parseString(s, p + 1))
        v == skipWs(s, c + 1)
        q == skipWs(s, parseValue(s, v)) IN
    <<[k |-> readString(s, p + 1), v |-> valueAt(s, v)]>> \o
        (IF s[q] = "," THEN membersAt(s, skipWs(s, q + 1)) ELSE << >>)

\* the value of the JSON text at position p
valueAt(s, p) ==
    LET c == s[p] IN
    IF c = "{"
    THEN [t |-> "object",
          v |-> IF s[skipWs(s, p + 1)] = "}" THEN << >>
                ELSE defineProperties(membersAt(s, skipWs(s, p + 1)))]
    ELSE IF c = "["
    THEN [t |-> "array",
          v |-> IF s[skipWs(s, p + 1)] = "]" THEN << >>
                ELSE elementsAt(s, skipWs(s, p + 1))]
    ELSE IF c = "\"" THEN [t |-> "string", v |-> readString(s, p + 1)]
    ELSE IF c = "-" \/ c \in Digits
         THEN [t |-> "number", v |-> numberToString(SubSeq(s, p, parseNumber(s, p) - 1))]
    ELSE [t |-> "literal", v |-> SubSeq(s, p, parseValue(s, p) - 1)]

\* JSON.parse(text), for a text that parses
jsonParse(text) == valueAt(text, skipWs(text, 1))

\* the control characters that have a word in the model
ControlWords ==
    {"U+00" \o x \o y :
        x \in {"0", "1"},
        y \in Digits \cup {"a", "b", "c", "d", "e", "f"}}

\* QuoteJSONString, one character
quoteChar(c) ==
    CASE c = "\"" -> <<"\\", "\"">>
      [] c = "\\" -> <<"\\", "\\">>
      [] c = "\n" -> <<"\\", "n">>
      [] c = "\t" -> <<"\\", "t">>
      [] c = "\r" -> <<"\\", "r">>
      [] c = "\f" -> <<"\\", "f">>
      [] c = Backspace -> <<"\\", "b">>
      [] c \in ControlWords ->
            LET xy == CHOOSE xy \in ({"0", "1"} \X HexDigits) :
                          c = "U+00" \o xy[1] \o xy[2] IN
            <<"\\", "u", "0", "0", xy[1], xy[2]>>
      [] OTHER -> <<c>>

quote(str) == <<"\"">> \o Concat([i \in 1..Len(str) |-> quoteChar(str[i])]) \o <<"\"">>

RECURSIVE stringify(_, _)
\* JSON.stringify(value, null, 2), with the indentation reached so far
stringify(value, indent) ==
    LET inner == indent + 2
        sep == <<",", "\n">> \o Rep(" ", inner)
        open == <<"\n">> \o Rep(" ", inner)
        close == <<"\n">> \o Rep(" ", indent) IN
    IF value.t = "string" THEN quote(value.v)
    ELSE IF value.t = "number" THEN value.v
    ELSE IF value.t = "literal" THEN value.v
    ELSE IF value.t = "array"
    THEN IF value.v = << >> THEN <<"[", "]">>
         ELSE <<"[">> \o open
                \o join([i \in 1..Len(value.v) |-> stringify(value.v[i], inner)], sep)
                \o close \o <<"]">>
    ELSE IF value.v = << >> THEN <<"{", "}">>
         ELSE <<"{">> \o open
                \o join([i \in 1..Len(value.v) |->
                            quote(value.v[i].k) \o <<":", " ">>
                                \o stringify(value.v[i].v, inner)], sep)
                \o close \o <<"}">>

----------------------------------------------------------------------------
(* marked.parse and DOMPurify.sanitize, the two vendored libraries of the  *)
(* markdown case, as the documentation describes them: marked turns links  *)
(* and images into elements and passes raw HTML through; DOMPurify parses  *)
(* the HTML and serialises it again without the elements and attributes    *)
(* that the configuration does not allow.                                  *)

\* the punctuation of a tag; any other word after < is a tag name
TagPunctuation == {"", " ", "\n", "<", ">", "/", "=", "\""}

\* HTML blocks start with one of these, and marked wraps no paragraph around them
BlockTags == {"script", "style", "pre", "iframe", "form", "div", "table", "p",
              "h1", "h2", "h3", "h4", "h5", "h6", "ul", "ol", "blockquote", "hr"}

\* the first position from p on that holds c, or Len(s) + 1
Find(s, p, c) ==
    CHOOSE q \in p..(Len(s) + 1) :
        /\ q <= Len(s) => s[q] = c
        /\ \A k \in p..(q - 1) : s[k] # c

\* is there [text](url) at p, or ![alt](url) at p - 1
linkAt(md, p) ==
    LET b == Find(md, p + 1, "]")
        e == Find(md, b + 2, ")") IN
    /\ At(md, p) = "["
    /\ At(md, b) = "]"
    /\ At(md, b + 1) = "("
    /\ At(md, e) = ")"

RECURSIVE inline(_, _)
\* the inline content from p on: the text up to the next link or image as it
\* is, then the element of the link or image
inline(md, p) ==
    LET starts == {q \in p..Len(md) :
                      linkAt(md, q) \/ (md[q] = "!" /\ linkAt(md, q + 1))}
        q == IF starts = {} THEN Len(md) + 1
             ELSE CHOOSE q \in starts : \A r \in starts : q <= r
        img == At(md, q) = "!"
        o == IF img THEN q + 1 ELSE q
        b == Find(md, o + 1, "]")
        e == Find(md, b + 2, ")")
        text == SubSeq(md, o + 1, b - 1)
        url == SubSeq(md, b + 2, e - 1)
        run == SubSeq(md, p, q - 1) IN
    IF q > Len(md) THEN run
    ELSE IF img
    THEN run \o <<"<", "img", " ", "src", "=", "\"">> \o url
            \o <<"\"", " ", "alt", "=", "\"">> \o text \o <<"\"", ">">>
            \o inline(md, e + 1)
    ELSE run \o <<"<", "a", " ", "href", "=", "\"">> \o url \o <<"\"", ">">>
            \o text \o <<"<", "/", "a", ">">> \o inline(md, e + 1)

\* marked.parse(content, { breaks: true, gfm: true })
marked_parse(content) ==
    IF content = << >> THEN << >>
    ELSE IF content[1] = "<" /\ At(content, 2) \in BlockTags THEN content
    ELSE <<"<", "p", ">">> \o inline(content, 1) \o <<"<", "/", "p", ">", "\n">>

\* the elements that DOMPurify removes together with what they hold
ForbidContents == {"script", "style", "iframe", "svg", "math", "noscript",
                   "template", "textarea", "title", "xmp"}

\* URL schemes, each one word
SchemeWords == {"javascript:", "vbscript:", "data:", "https:", "http:", "mailto:"}
AllowedSchemes == {"https:", "http:", "mailto:"}
DataUriTags == {"img", "image", "audio", "video", "source", "track"}
UriAttributes == {"src", "href"}

\* the end of the tag that opens at p: its first > outside a quoted value,
\* or Len(html) + 1
tagEnd(html, p) ==
    CHOOSE q \in p..(Len(html) + 1) :
        LET closes(k) == /\ html[k] = ">"
                         /\ Cardinality({j \in p..(k - 1) : html[j] = "\""}) % 2 = 0 IN
        /\ q <= Len(html) => closes(q)
        /\ \A k \in p..(q - 1) : ~closes(k)

RECURSIVE attributesIn(_, _, _)
\* the attributes [name, value] between p and the end e of the tag
attributesIn(html, p, e) ==
    LET name == html[p]
        hasValue == At(html, p + 1) = "="
        quoted == hasValue /\ At(html, p + 2) = "\""
        close == IF quoted THEN Min(Find(html, p + 3, "\""), e)
                 ELSE Min(Min(Find(html, p + 2, " "), Find(html, p + 2, "/")), e)
        value == IF quoted THEN SubSeq(html, p + 3, close - 1)
                 ELSE IF hasValue THEN SubSeq(html, p + 2, close - 1)
                 ELSE << >>
        next == IF quoted THEN close + 1 ELSE IF hasValue THEN close ELSE p + 1 IN
    IF p >= e THEN << >>
    ELSE IF html[p] \in {" ", "\n", "/", "=", "\""} THEN attributesIn(html, p + 1, e)
    ELSE <<[name |-> name, value |-> value]>> \o attributesIn(html, next, e)

\* may the attribute stay: its name is allowed and its value is no script URL
attributeAllowed(tag, attr, allowedAttr) ==
    LET v == SelectSeq(attr.value, LAMBDA c : c \notin Whitespace) IN
    /\ attr.name \in allowedAttr
    /\ \/ v = << >>
       \/ v[1] \notin SchemeWords
       \/ v[1] \in AllowedSchemes
       \/ v[1] = "data:" /\ attr.name \in UriAttributes /\ tag \in DataUriTags

\* the serialisation of one character of an attribute value
escapeAttrChar(c) == IF c = "\"" THEN <<"&", "q", "u", "o", "t", ";">> ELSE escapeChar(c)

serializeAttribute(attr) ==
    <<" ", attr.name, "=", "\"">>
        \o Concat([i \in 1..Len(attr.value) |-> escapeAttrChar(attr.value[i])])
        \o <<"\"">>

\* the position after the end tag of the element whose content starts at p,
\* or after the text when the end tag is missing
afterElement(html, p, tag) ==
    LET ends == {q \in p..Len(html) : HasAt(html, q, <<"<", "/", tag>>)} IN
    IF ends = {} THEN Len(html) + 1
    ELSE tagEnd(html, CHOOSE q \in ends : \A r \in ends : q <= r) + 1

Entities == {<<"&", "a", "m", "p", ";">>, <<"&", "l", "t", ";">>, <<"&", "g", "t", ";">>,
             <<"&", "n", "b", "s", "p", ";">>, <<"&", "q", "u", "o", "t", ";">>}

RECURSIVE sanitizeFrom(_, _, _, _)
\* the sanitised HTML from p on: the text up to the next markup character
\* as it is, then the character reference, the tag or the escaped character
sanitizeFrom(html, p, allowedTags, allowedAttr) ==
    LET q == SkipAll(html, p, {html[k] : k \in 1..Len(html)} \ {"<", ">", "&", Nbsp})
        run == SubSeq(html, p, q - 1)
        closing == At(html, q + 1) = "/"
        tag == IF closing THEN At(html, q + 2) ELSE At(html, q + 1)
        e == tagEnd(html, q)
        attrs == attributesIn(html, q + 2, e)
        kept == SelectSeq(attrs, LAMBDA a : attributeAllowed(tag, a, allowedAttr))
        rest(r) == sanitizeFrom(html, r, allowedTags, allowedAttr) IN
    IF q > Len(html) THEN run
    ELSE IF html[q] = "&" /\ \E en \in Entities : HasAt(html, q, en)
    THEN LET en == CHOOSE en \in Entities : HasAt(html, q, en) IN
         run \o (IF en = <<"&", "q", "u", "o", "t", ";">> THEN <<"\"">> ELSE en)
             \o rest(q + Len(en))
    ELSE IF html[q] # "<" \/ tag \in TagPunctuation
    THEN run \o escapeChar(html[q]) \o rest(q + 1)
    ELSE IF closing
    THEN run \o (IF tag \in allowedTags THEN <<"<", "/", tag, ">">> ELSE << >>)
             \o rest(e + 1)
    ELSE IF tag \in allowedTags
    THEN run \o <<"<", tag>>
             \o Concat([i \in 1..Len(kept) |-> serializeAttribute(kept[i])])
             \o <<">">> \o rest(e + 1)
    ELSE IF tag \in ForbidContents THEN run \o rest(afterElement(html, e + 1, tag))
    ELSE run \o rest(e + 1)

\* DOMPurify.sanitize(dirty, { ALLOWED_TAGS, ALLOWED_ATTR, ALLOW_DATA_ATTR: false })
DOMPurify_sanitize(dirty, allowedTags, allowedAttr) ==
    sanitizeFrom(dirty, 1, allowedTags, allowedAttr)

----------------------------------------------------------------------------
(* renderContentToHtml, src/unnamed/part_000 lines 283-329 *)

ALLOWED_TAGS ==
    {"h1", "h2", "h3", "h4", "h5", "h6", "p", "br", "strong", "em", "del",
     "ul", "ol", "li", "a", "code", "pre", "blockquote", "table", "thead",
     "tbody", "tr", "th", "td", "img", "hr", "div", "span", "sup", "sub"}

ALLOWED_ATTR == {"href", "src", "alt", "title", "class", "id", "align"}

\* which of the two libraries the page has loaded
Libs == [marked : BOOLEAN, DOMPurify : BOOLEAN]

\* `<pre class="ghn-content">${html}</pre>`
pre(html) ==
    <<"<", "pre", " ", "class", "=", "\"", "ghn-content", "\"", ">">>
        \o html \o <<"<", "/", "pre", ">">>

SpanOpen == <<"<", "span", " ", "class", "=", "\"", "ghn-yaml-key", "\"", ">">>
SpanClose == <<"<", "/", "span", ">">>

WordChars == Letters \cup Digits \cup {"_"}

\* line.match(/^(\s*)([\w.-]+)(:)(\s.*)?$/) and the replacement.  The
\* classes of the first two groups and the colon exclude one another, so
\* each group takes the longest run.
yamlLine(line) ==
    LET w == SkipAll(line, 1, Whitespace)
        k == SkipAll(line, w, WordChars \cup {".", "-"})
        m == /\ k > w
             /\ At(line, k) = ":"
             /\ \/ k = Len(line)
                \/ /\ At(line, k + 1) \in Whitespace
                   /\ \A j \in (k + 2)..Len(line) : line[j] \notin LineTerminators
    IN IF m
       THEN SubSeq(line, 1, w - 1) \o SpanOpen \o SubSeq(line, w, k - 1) \o SpanClose
                \o <<":">> \o SubSeq(line, k + 1, Len(line))
       ELSE line

\* mutant: without DOMPurify the converted HTML is returned as it is
caseMarkdown_RawWithoutSanitizer(content, libs) ==
    IF libs.marked
    THEN IF libs.DOMPurify
         THEN DOMPurify_sanitize(marked_parse(content), ALLOWED_TAGS, ALLOWED_ATTR)
         ELSE marked_parse(content)
    ELSE pre(escapeHtml(content))

\* case "markdown"
caseMarkdown(content, libs) ==
    IF libs.marked
    THEN IF libs.DOMPurify
         THEN DOMPurify_sanitize(marked_parse(content), ALLOWED_TAGS, ALLOWED_ATTR)
         ELSE escapeHtml(marked_parse(content))
    ELSE pre(escapeHtml(content))

\* mutant: the text that does not parse is returned as it is
caseJson_RawCatch(content) ==
    IF jsonParses(trim(content))
    THEN pre(escapeHtml(stringify(jsonParse(trim(content)), 0)))
    ELSE pre(content)

\* case "json": try { JSON.stringify(JSON.parse(content.trim()), null, 2) } catch
caseJson(content) ==
    IF jsonParses(trim(content))
    THEN pre(escapeHtml(stringify(jsonParse(trim(content)), 0)))
    ELSE pre(escapeHtml(content))

\* case "yaml"
caseYaml(content) ==
    LET lines == split(escapeHtml(content), "\n")
        highlighted == join([i \in 1..Len(lines) |-> yamlLine(lines[i])], <<"\n">>)
    IN pre(highlighted)

\* default
caseDefault(content) == pre(escapeHtml(content))

renderContentToHtml(content, format, libs) ==
    CASE format = "markdown" -> caseMarkdown(content, libs)
      [] format = "json" -> caseJson(content)
      [] format = "yaml" -> caseYaml(content)
      [] OTHER -> caseDefault(content)

----------------------------------------------------------------------------
(* The notes that are rendered *)

\* Markdown notes, with tag names, attribute names and URL schemes as words
MarkdownLines ==
    { <<"<", "img", " ", "onerror", "=", "\"", "alert(1)", "\"", " ", "src", "=", "\"", "x", "\"", ">">>,
      <<"<", "iframe", " ", "src", "=", "\"", "javascript:", "alert(1)", "\"", ">", "<", "/", "iframe", ">">>,
      <<"<", "form", " ", "action", "=", "\"", "https:", "//evil.com", "\"", ">", "<", "input", ">", "<", "/", "form", ">">>,
      <<"[", "click", "]", "(", "javascript:", "alert(1)", ")">>,
      <<"<", "svg", " ", "onload", "=", "\"", "alert(1)", "\"", ">", "<", "circle", " ", "r", "=", "\"", "10", "\"", "/", ">", "<", "/", "svg", ">">>,
      <<"<", "style", ">", "body{display:none}", "<", "/", "style", ">">>,
      <<"<", "img", " ", "src", "=", "\"", "data:", "text/html,", "<", "script", ">", "alert(1)", "<", "/", "script", ">", "\"", ">">>,
      <<"<", "a", " ", "href", "=", "\"", "#", "\"", " ", "onclick", "=", "\"", "alert(1)", "\"", ">", "link", "<", "/", "a", ">">>,
      <<"<", "div", " ", "style", "=", "\"", "background:url(", "javascript:", "alert(1)", ")", "\"", ">", "x", "<", "/", "div", ">">>,
      <<"<", "math", ">", "<", "annotation-xml", " ", "encoding", "=", "\"", "text/html", "\"", ">", "<", "script", ">", "alert(1)", "<", "/", "script", ">", "<", "/", "annotation-xml", ">", "<", "/", "math", ">">>,
      <<"<", "script", ">", "alert(1)", "<", "/", "script", ">">>,
      <<"hello", " ", "<", "b", ">", "world", "<", "/", "b", ">">>,
      <<"<", "a", " ", "href", "=", "\"", " ", "javascript:", "alert(1)", "\"", ">", "x", "<", "/", "a", ">">>,
      <<"<", "a", " ", "href", "=", "\"", "https:", "//example.com", "\"", " ", "title", "=", "\"", "a", " ", "javascript:", " ", "b", "\"", ">", "ok", "<", "/", "a", ">">>,
      <<"!", "[", "x", "]", "(", "javascript:", "alert(1)", ")">>,
      <<"<", "img", " ", "src", "=", "x", " ", "onerror", "=", "alert(1)", ">">>,
      <<"<", "a", " ", "href", "=", "\"", "x", "\"", " ", "id", "=", "\"", "y", "\"", " ", "data-x", "=", "\"", "1", "\"", ">", "t", "<", "/", "a", ">">>,
      <<"<", "input", " ", "onfocus", "=", "\"", "alert(1)", "\"", " ", "autofocus", ">">>,
      <<"a", " ", "<", " ", "b", " ", "&", " ", "c">>,
      <<"<", "p", " ", "class", "=", "\"", "note", "\"", ">", "ok", "<", "/", "p", ">">>,
      <<"[", "docs", "]", "(", "https:", "//example.com", ")">>,
      <<"plain", " ", "words">>,
      <<>> }

\* one line, or two lines joined by a line feed
MarkdownSecondLines ==
    { <<"<", "script", ">", "alert(1)", "<", "/", "script", ">">>,
      <<"[", "click", "]", "(", "javascript:", "alert(1)", ")">>,
      <<"<", "img", " ", "onerror", "=", "\"", "alert(1)", "\"", " ", "src", "=", "\"", "x", "\"", ">">>,
      <<"<", "a", " ", "href", "=", "\"", " ", "javascript:", "alert(1)", "\"", ">", "x", "<", "/", "a", ">">>,
      <<"a", " ", "<", " ", "b", " ", "&", " ", "c">>,
      <<"plain", " ", "words">> }

MarkdownContents ==
    MarkdownLines \cup
        {a \o <<"\n">> \o b : a \in MarkdownLines \ {<< >>}, b \in MarkdownSecondLines}

\* JSON, YAML and plain notes, character by character
TextLines ==
    { <<>>,
      <<"h", "i">>,
      <<"<", "b", ">", "x", "<", "/", "b", ">">>,
      <<"a", " ", "&", " ", "b">>,
      <<"&", "l", "t", ";">>,
      <<"<", "d", "i", "v", " ", "o", "n", "m", "o", "u", "s", "e", "o", "v", "e", "r", "=", "\"", "a", "l", "e", "r", "t", "(", "1", ")", "\"", ">", "h", "o", "v", "e", "r", " ", "m", "e", "<", "/", "d", "i", "v", ">">>,
      <<"a", Nbsp, "b">>,
      <<"k", "e", "y", ":", " ", "<", "s", "c", "r", "i", "p", "t", ">", "a", "l", "e", "r", "t", "(", "1", ")", "<", "/", "s", "c", "r", "i", "p", "t", ">">>,
      <<"o", "t", "h", "e", "r", ":", " ", "s", "a", "f", "e">>,
      <<"<", "i", "m", "g", " ", "o", "n", "e", "r", "r", "o", "r", "=", "a", "l", "e", "r", "t", "(", "1", ")", ">", ":", " ", "v", "a", "l", "u", "e">>,
      <<"k", "e", "y", "2", ":", " ", "v", "a", "l", "2">>,
      <<" ", " ", "a", ".", "b", "-", "c", ":", " ", "v">>,
      <<"k", ":">>,
      <<"k", ":", "v">>,
      <<"k", ":", " ", "v", "\r">>,
      <<"k", ":", "\r">>,
      <<":", " ", "v">>,
      <<"a", " ", "b", ":", " ", "c">>,
      <<"k", ":", " ", "a", " ", "&", " ", "b">>,
      <<"k", "&", ":", " ", "v">>,
      <<"-", ":", " ", "x">>,
      <<"k", ":", "\t", "v", ">">>,
      <<"{", "\"", "x", "s", "s", "\"", ":", " ", "\"", "<", "i", "m", "g", " ", "o", "n", "e", "r", "r", "o", "r", "=", "a", "l", "e", "r", "t", "(", "1", ")", " ", "s", "r", "c", "=", "x", ">", "\"", "}">>,
      <<"{", "\"", "a", "\"", ":", "\"", "\\", "u", "0", "0", "3", "c", "b", "\\", "u", "0", "0", "3", "E", "\"", "}">>,
      <<"[", "\"", "a", "&", "b", "\"", ",", " ", "1", ".", "5", "0", ",", " ", "-", "0", ",", " ", "t", "r", "u", "e", ",", " ", "n", "u", "l", "l", "]">>,
      <<"{", "\"", "b", "\"", ":", "1", ",", "\"", "1", "\"", ":", "2", ",", "\"", "b", "\"", ":", "\"", "<", "\"", "}">>,
      <<"{", "\"", "<", "k", ">", "\"", ":", " ", "[", "]", "}">>,
      <<"{", "\"", "a", "\"", ":", " ", "{", "\"", "b", "\"", ":", " ", "[", "1", ",", " ", "{", "\"", "c", "\"", ":", " ", "\"", "\\", "n", "\\", "\"", "\\", "\\", "\"", "}", "]", "}", "}">>,
      <<"{", "n", "o", "t", " ", "j", "s", "o", "n", " ", "<", "b", ">", "}">>,
      <<"[", "\"", "<", "\"", ",", " ">>,
      <<" ", "[", "1", "]", " ">>,
      <<"{", "}">>,
      <<"\"", "<", "s", ">", "\"">>,
      <<"[", "[", "]", ",", "{", "}", "]">>,
      <<"[", "\"", "\\", "u", "0", "0", "0", "1", "\\", "u", "0", "0", "a", "0", ">", "\"", "]">>,
      <<"{", "\"", "1", "0", "\"", ":", "\"", "a", "\"", ",", "\"", "9", "\"", ":", "\"", "b", "\"", ",", "\"", "0", "1", "\"", ":", "\"", "c", "\"", "}">>,
      <<"[", "-", "0", ".", "0", ",", " ", "1", "0", ".", "0", "1", "0", "]">> }

TextSecondLines ==
    { << >>,
      <<"o", "t", "h", "e", "r", ":", " ", "s", "a", "f", "e">>,
      <<"<", "b", ">", "x", "<", "/", "b", ">">>,
      <<"k", ":">>,
      <<"a", " ", "&", " ", "b">>,
      <<"{", "\"", "a", "\"", ":", "\"", "\\", "u", "0", "0", "3", "c", "b", "\\", "u", "0", "0", "3", "E", "\"", "}">> }

TextContents ==
    TextLines \cup {a \o <<"\n">> \o b : a \in TextLines, b \in TextSecondLines}

\* showNotes and the tests call renderContentToHtml(content, format)
RenderContent(content, format, libs) ==
    /\ used.notes < MaxNotes
    /\ used' = [used EXCEPT !.notes = @ + 1]
    /\ rendered' = [content |-> content, format |-> format, libs |-> libs,
                    html |-> renderContentToHtml(content, format, libs)]
    /\ UNCHANGED <<parsed, fmt, fanout, box, storage, notNote>>

NextRender ==
    \/ \E content \in MarkdownContents, libs \in Libs :
            RenderContent(content, "markdown", libs)
    \/ \E content \in TextContents, format \in Formats \ {"markdown"}, libs \in Libs :
            RenderContent(content, format, libs)

----------------------------------------------------------------------------
(* showNotes, src/unnamed/part_000 lines 346-427: the box of one note with *)
(* its format badge, its raw/rendered toggle and its show-more button.     *)

MaxClicks == 3

\* no box yet
NoBox ==
    [shown |-> FALSE, format |-> "none", badge |-> "", toggle |-> FALSE, raw |-> FALSE,
     renderedHidden |-> FALSE, rawHidden |-> TRUE, active |-> FALSE,
     showMoreHidden |-> TRUE, collapsed |-> FALSE, expanded |-> FALSE, framed |-> FALSE,
     truncated |-> FALSE, label |-> "Show full note", height |-> 0, moreClicks |-> 0,
     clicks |-> 0, seen |-> << >>]

\* what the toggle shows: <<renderedBody.hidden, rawBody.hidden, ghn-active>>
visible(b) == <<b.renderedHidden, b.rawHidden, b.active>>

\* lines 355-395 and 405-416: the box as showNotes builds it.  A plain note
\* gets no raw body; rawHidden is TRUE for the body that does not exist.
showNotes(content) ==
    LET format == detectFormat(content)
        formatLabel == IF format # "plain" THEN format ELSE "" IN
    [NoBox EXCEPT !.shown = TRUE,
                  !.format = format,
                  !.badge = formatLabel,
                  !.toggle = format # "plain",
                  !.raw = format # "plain",
                  !.seen = <<visible(NoBox)>>]

\* mutant: the class is set when the rendered body comes back
toggleClick_ActiveInverted(b) ==
    LET showingRaw == ~b.rawHidden IN
    [b EXCEPT !.renderedHidden = ~showingRaw,
              !.rawHidden = showingRaw,
              !.active = showingRaw]

\* the click handler of the toggle, lines 397-402
toggleClick(b) ==
    LET showingRaw == ~b.rawHidden IN
    [b EXCEPT !.renderedHidden = ~showingRaw,
              !.rawHidden = showingRaw,
              !.active = ~showingRaw]

\* showNotes(container, [note])
ShowNotes(content) ==
    /\ used.notes < MaxNotes
    /\ used' = [used EXCEPT !.notes = @ + 1]
    /\ box' = showNotes(content)
    /\ UNCHANGED <<parsed, fmt, fanout, rendered, storage, notNote>>

\* the user clicks the toggle button, which only a box with a raw body has
ToggleClick ==
    /\ box.shown /\ box.toggle
    /\ box.clicks < MaxClicks
    /\ box' = [toggleClick(box) EXCEPT !.clicks = @ + 1,
                                       !.seen = Append(@, visible(toggleClick(box)))]
    /\ UNCHANGED <<parsed, fmt, fanout, rendered, storage, used, notNote>>

\* px: notes taller than this start collapsed
COLLAPSE_HEIGHT == 500

\* renderedBody.scrollHeight, as the layout may give it
BodyHeights == {0, 120, 499, 500, 501, 2400}

\* mutant: a body of exactly the threshold is collapsed as well
measure_AtThreshold(b, bodyHeight) ==
    IF bodyHeight >= COLLAPSE_HEIGHT
    THEN [b EXCEPT !.collapsed = TRUE, !.showMoreHidden = FALSE]
    ELSE b

\* the requestAnimationFrame callback, lines 419-425
measure(b, bodyHeight) ==
    IF bodyHeight > COLLAPSE_HEIGHT
    THEN [b EXCEPT !.collapsed = TRUE, !.showMoreHidden = FALSE]
    ELSE b

\* the click handler of the show-more button, lines 410-413
showMoreClick(b) ==
    LET isExpanded == ~b.expanded IN
    [b EXCEPT !.expanded = isExpanded,
              !.label = IF isExpanded THEN "Collapse note" ELSE "Show full note"]

\* the animation frame after showNotes measures the rendered body
AnimationFrame(bodyHeight) ==
    /\ box.shown /\ ~box.framed
    /\ box' = [measure(box, bodyHeight) EXCEPT !.framed = TRUE, !.height = bodyHeight]
    /\ UNCHANGED <<parsed, fmt, fanout, rendered, storage, used, notNote>>

\* the user clicks the show-more button, which is possible once it is visible
ShowMoreClick ==
    /\ box.shown /\ ~box.showMoreHidden
    /\ box.clicks < MaxClicks
    /\ box' = [showMoreClick(box) EXCEPT !.clicks = @ + 1, !.moreClicks = @ + 1]
    /\ UNCHANGED <<parsed, fmt, fanout, rendered, storage, used, notNote>>

NextBox ==
    \/ \E content \in NoteLines : ShowNotes(content)
    \/ ToggleClick
    \/ \E bodyHeight \in BodyHeights : AnimationFrame(bodyHeight)
    \/ ShowMoreClick

----------------------------------------------------------------------------
(* showNotes of src/content.js, lines 460-563: the body of a note other    *)
(* than plain is a sandboxed iframe that reports its height with           *)
(* 'ghn-resize' messages; the wrapper of the body carries the classes      *)
(* ghn-truncated and ghn-expanded.                                         *)

\* px, line 458: notes taller than this get collapsed
COLLAPSE_HEIGHT_Sandboxed == 300

\* min-height of the iframe, line 417
IframeMinHeight == 40

\* document.documentElement.scrollHeight, as the iframe may report it
ReportedHeights == {0, 120, 300, 301, 2400}

\* lines 466-562: the box as showNotes builds it
showNotesSandboxed(content) ==
    LET format == detectFormat(content)
        formatLabel == IF format # "plain" THEN format ELSE "" IN
    [NoBox EXCEPT !.shown = TRUE,
                  !.format = format,
                  !.badge = formatLabel,
                  !.toggle = format # "plain",
                  !.raw = format # "plain",
                  !.framed = format # "plain",
                  !.seen = <<visible(NoBox)>>]

\* checkTruncation, lines 544-550, with wrapper.scrollHeight
checkTruncation(b, contentHeight) ==
    IF contentHeight > COLLAPSE_HEIGHT_Sandboxed
    THEN [b EXCEPT !.truncated = TRUE, !.showMoreHidden = FALSE]
    ELSE b

\* the click handler of the show-more button, lines 534-540
showMoreClickSandboxed(b) ==
    LET expanded == ~b.expanded IN
    [b EXCEPT !.expanded = expanded,
              !.truncated = ~expanded,
              !.label = IF expanded THEN "Collapse note" ELSE "Show full note"]

\* showNotes(container, [note])
ShowNotesSandboxed(content) ==
    /\ used.notes < MaxNotes
    /\ used' = [used EXCEPT !.notes = @ + 1]
    /\ box' = showNotesSandboxed(content)
    /\ UNCHANGED <<parsed, fmt, fanout, rendered, storage, notNote>>

\* the message listener, lines 424-440: the iframe of the note reports its
\* height, the iframe gets it and the truncation check runs on the wrapper
ResizeMessage(height) ==
    /\ box.shown /\ box.format # "plain"
    /\ box.clicks < MaxClicks
    /\ LET b == [box EXCEPT !.height = height, !.clicks = @ + 1]
           scrollHeight == IF height > IframeMinHeight THEN height ELSE IframeMinHeight
       IN box' = checkTruncation(b, scrollHeight)
    /\ UNCHANGED <<parsed, fmt, fanout, rendered, storage, used, notNote>>

\* lines 555-556: the animation frame after showNotes checks a plain note
PlainAnimationFrame(contentHeight) ==
    /\ box.shown /\ box.format = "plain" /\ ~box.framed
    /\ box' = checkTruncation([box EXCEPT !.framed = TRUE, !.height = contentHeight],
                              contentHeight)
    /\ UNCHANGED <<parsed, fmt, fanout, rendered, storage, used, notNote>>

\* the user clicks the show-more button, which is possible once it is visible
ShowMoreClickSandboxed ==
    /\ box.shown /\ ~box.showMoreHidden
    /\ box.clicks < MaxClicks
    /\ box' = [showMoreClickSandboxed(box) EXCEPT !.clicks = @ + 1, !.moreClicks = @ + 1]
    /\ UNCHANGED <<parsed, fmt, fanout, rendered, storage, used, notNote>>

NextSandboxed ==
    \/ \E content \in NoteLines : ShowNotesSandboxed(content)
    \/ \E height \in ReportedHeights : ResizeMessage(height)
    \/ \E contentHeight \in ReportedHeights : PlainAnimationFrame(contentHeight)
    \/ ShowMoreClickSandboxed

----------------------------------------------------------------------------
(* parseCommitUrl on the characters of location.pathname, content.js       *)
(* lines 4-12.                                                             *)

NoMatch == [found |-> FALSE, owner |-> << >>, repo |-> << >>, commitSha |-> << >>]

\* a letter of the pattern under the i flag
sameLetter(c, letter) ==
    \/ c = letter
    \/ <<letter, c>> \in {<<"c", "C">>, <<"o", "O">>, <<"m", "M">>, <<"i", "I">>, <<"t", "T">>}

\* pathname.match(/^\/([^/]+)\/([^/]+)\/commit\/([0-9a-f]{5,40})$/i).  No
\* group can take a slash, so the owner and the repo are the runs between
\* the slashes, and the SHA runs to the end of the path.
matchCommitUrl(pathname) ==
    LET all == {pathname[k] : k \in 1..Len(pathname)}
        o == SkipAll(pathname, 2, all \ {"/"})
        r == SkipAll(pathname, o + 1, all \ {"/"})
        d == r + 8
        e == SkipAll(pathname, d, HexDigits) IN
    IF /\ At(pathname, 1) = "/" /\ o > 2
       /\ At(pathname, o) = "/" /\ r > o + 1
       /\ At(pathname, r) = "/"
       /\ \A j \in 1..6 : sameLetter(At(pathname, r + j), <<"c", "o", "m", "m", "i", "t">>[j])
       /\ At(pathname, r + 7) = "/"
       /\ e = Len(pathname) + 1
       /\ e - d \in 5..40
    THEN [found |-> TRUE, owner |-> SubSeq(pathname, 2, o - 1),
          repo |-> SubSeq(pathname, o + 1, r - 1), commitSha |-> SubSeq(pathname, d, e - 1)]
    ELSE NoMatch

PathOwners == { <<>>, <<"o">>, <<"O", "w", "n", "-", "e", "r", ".", "1">> }
PathKinds == { <<"c", "o", "m", "m", "i", "t">>,
                <<"C", "O", "M", "M", "I", "T">>,
                <<"C", "o", "m", "m", "i", "t">>,
                <<"c", "o", "m", "m", "i", "t", "s">>,
                <<"t", "r", "e", "e">>,
                <<"c", "o", "m", "m", "i">> }
PathShas ==
    { <<>>,
      <<"a", "b", "c", "1">>,
      <<"a", "1", "b", "2", "c">>,
      <<"A", "B", "C", "D", "E", "F">>,
      <<"a", "B", "c", "0", "9">>,
      <<"g", "h", "i", "j", "k">>,
      <<"a", "1", "b", "2", "g">>,
      <<"a", "b", "c", "d", "e", "f", "0", "1", "2", "3", "4", "5", "6", "7", "8", "9", "a", "b", "c", "d", "e", "f", "0", "1", "2", "3", "4", "5", "6", "7", "8", "9", "a", "b", "c", "d", "e", "f", "0">>,
      <<"a", "b", "c", "d", "e", "f", "0", "1", "2", "3", "4", "5", "6", "7", "8", "9", "a", "b", "c", "d", "e", "f", "0", "1", "2", "3", "4", "5", "6", "7", "8", "9", "a", "b", "c", "d", "e", "f", "0", "1">>,
      <<"a", "b", "c", "d", "e", "f", "0", "1", "2", "3", "4", "5", "6", "7", "8", "9", "a", "b", "c", "d", "e", "f", "0", "1", "2", "3", "4", "5", "6", "7", "8", "9", "a", "b", "c", "d", "e", "f", "0", "1", "2">>,
      <<"a", "b", "c", " ", "1", "2">>,
      <<"a", "b", "c", "1", "2", "\n">> }
PathTrails == { <<>>, <<"/">>, <<"/", "e", "x", "t", "r", "a">>, <<"#", "L", "1">> }

\* paths of the commit-page shape with each part varied, and some others
Pathnames ==
    {<<"/">> \o o \o <<"/">> \o r \o <<"/">> \o k \o <<"/">> \o x \o t :
        o \in PathOwners, r \in PathOwners, k \in PathKinds, x \in PathShas, t \in PathTrails}
    \cup
    { <<>>,
      <<"/">>,
      <<"o", "/", "r", "/", "c", "o", "m", "m", "i", "t", "/", "a", "b", "c", "d", "e">>,
      <<"/", "/", "r", "/", "c", "o", "m", "m", "i", "t", "/", "a", "b", "c", "d", "e">>,
      <<"/", "o", "/", "/", "c", "o", "m", "m", "i", "t", "/", "a", "b", "c", "d", "e">>,
      <<"/", "o", "/", "r", "/", "c", "o", "m", "m", "i", "t">>,
      <<"/", "x", "/", "o", "/", "r", "/", "c", "o", "m", "m", "i", "t", "/", "a", "b", "c", "d", "e">>,
      <<"/", "o", "/", "r", "/", "t", "r", "e", "e", "/", "m", "a", "i", "n">>,
      <<"/", "o", "/", "r", "/", "p", "u", "l", "l", "/", "1", "2", "/", "c", "o", "m", "m", "i", "t", "/", "a", "b", "c", "d", "e">>,
      <<"\n", "/", "o", "/", "r", "/", "c", "o", "m", "m", "i", "t", "/", "a", "b", "c", "d", "e">> }

\* parseCommitUrl() on a page with this pathname
ParseCommitUrl(pathname) ==
    /\ used.notes < MaxNotes
    /\ used' = [used EXCEPT !.notes = @ + 1]
    /\ parsed' = [pathname |-> pathname, calls |-> 1, match |-> matchCommitUrl(pathname)]
    /\ UNCHANGED <<fmt, fanout, rendered, box, storage, notNote>>

NextUrl == \E pathname \in Pathnames : ParseCommitUrl(pathname)

----------------------------------------------------------------------------
(* Specifications.  Every behaviour starts with the worker and the content *)
(* script freshly loaded; a specification runs one component.              *)

Init ==
    /\ treeCache = << >>
    /\ storedBy = << >>
    /\ flushed = {}
    /\ now = 0
    /\ h = IdleH
    /\ hist = EmptyHist
    /\ storage \in [githubToken : Tokens, noteRefs : RefLists]
    /\ used = [requests |-> 0, ticks |-> 0, pages |-> 0, navs |-> 0, notes |-> 0]
    /\ fr = IdleFr
    /\ flog = << >>
    /\ cachedToken = "undefined"
    /\ location = "null"
    /\ lastProcessedUrl = "null"
    /\ currentUrl = "null"
    /\ doc = [inj |-> "none", dom |-> << >>, elems |-> [r \in 1..MaxRuns |-> "none"],
              boxes |-> [r \in 1..MaxRuns |-> << >>]]
    /\ runs = [r \in 1..MaxRuns |-> NoRun]
    /\ env = [opened |-> FALSE, loaded |-> FALSE, turbo |-> FALSE, render |-> FALSE,
              sent |-> "none", handledBy |-> "none", optionsOpen |-> FALSE]
    /\ lastMut = NoMut
    /\ fmt = [content |-> << >>, format |-> "none", calls |-> 0]
    /\ fanout = [sha |-> << >>, prefix |-> << >>, suffix |-> << >>, path |-> << >>]
    /\ rendered = [content |-> << >>, format |-> "none",
                   libs |-> [marked |-> TRUE, DOMPurify |-> TRUE], html |-> << >>]
    /\ box = NoBox
    /\ parsed = [pathname |-> << >>, calls |-> 0, match |-> NoMatch]

\* the background worker
SpecBg == Init /\ [][NextBg]_vars

\* the background worker while the user works on the options page
SpecOptions == Init /\ [][NextOptions]_vars

\* what the content script does with the content of a note
SpecNote == Init /\ [][NextNote]_vars

\* parseCommitUrl on pathnames
SpecUrl == Init /\ [][NextUrl]_vars

\* the box of a note and its buttons
SpecBox == Init /\ [][NextBox]_vars

\* the content script's fetch chain while the user works on the options page
SpecToken == Init /\ [][NextToken]_vars

\* the box of a note whose body is a sandboxed iframe
SpecSandboxed == Init /\ [][NextSandboxed]_vars

\* the rendering of note contents
SpecRender == Init /\ [][NextRender]_vars

\* the fanout split of commit SHAs
SpecSplit == Init /\ [][NextSplit]_vars

\* the content script on a page that navigates
SpecPage == Init /\ [][NextPage]_vars

\* the content script's fetch chain
SpecFetch == Init /\ [][NextFetch]_vars

----------------------------------------------------------------------------
(* Properties of the background worker, checked under SpecBg *)

Resolutions == {hist.resolved[k] : k \in 1..Len(hist.resolved)}
Lookups == {hist.lookups[k] : k \in 1..Len(hist.lookups)}
Stores == {hist.stores[k] : k \in 1..Len(hist.stores)}
Responses == {hist.responses[k] : k \in 1..Len(hist.responses)}

\* the operations of the API requests issued for ref number i, in order
OpsFor(i) ==
    LET sel == SelectSeq(hist.apiLog, LAMBDA q : q.i = i) IN
    [k \in 1..Len(sel) |-> sel[k].op]

\* C1: every return of resolveNoteBlob for a full 40-character SHA is the
\* id of the blob entry named by the SHA in the notes tree, with no subtree
\* fetched; or else the id of the blob named by the last 38 characters in the
\* subtree of the directory named by the first 2; or else null.
C1_ResolveFullSha ==
    \A r \in Resolutions :
        LET root == NotesTree(r.owner, r.repo, r.ref)
            prefix == SubSeq(r.commitSha, 1, 2)
            suffix == SubSeq(r.commitSha, 3, 40)
            sub == IF HasEntry(root, prefix, "tree")
                   THEN ServerTree(EntrySha(root, prefix, "tree")) ELSE << >>
        IN Len(r.commitSha) = 40 =>
            IF HasEntry(root, r.commitSha, "blob")
            THEN r.result = EntrySha(root, r.commitSha, "blob") /\ ~r.subFetched
            ELSE IF HasEntry(root, prefix, "tree") /\ HasEntry(sub, suffix, "blob")
                 THEN r.result = EntrySha(sub, suffix, "blob")
                 ELSE r.result = "null"

\* C1 witness: a full SHA was resolved through its fanout directory
C1_Witness ==
    \E r \in Resolutions :
        Len(r.commitSha) = 40 /\ r.subFetched /\ r.result # "null"

\* C2 (as claimed, for resolveNoteBlob of the background worker): an
\* abbreviated SHA of 5 to 39 characters that is a prefix of a note entry of
\* the tree, or whose first two characters name a fanout directory holding an
\* entry that starts with the rest, is resolved to a blob and not to null.
C2_AbbreviatedShaResolved ==
    \A r \in Resolutions :
        LET root == NotesTree(r.owner, r.repo, r.ref)
            prefix == SubSeq(r.commitSha, 1, 2)
            rest == SubSeq(r.commitSha, 3, Len(r.commitSha))
            sub == IF HasEntry(root, prefix, "tree")
                   THEN ServerTree(EntrySha(root, prefix, "tree")) ELSE << >>
        IN (/\ Len(r.commitSha) >= 5 /\ Len(r.commitSha) <= 39
            /\ \/ HasEntryStarting(root, r.commitSha, "blob")
               \/ HasEntry(root, prefix, "tree") /\ HasEntryStarting(sub, rest, "blob"))
           => r.result # "null"

\* C6: fetchNotesTree returns the cached tree only for an entry stored less
\* than 5 minutes ago; for an older entry it requests ref, commit and tree
\* again and stores the new tree with the time of the store as timestamp.
C6_CacheTtl ==
    /\ \A l \in Lookups :
        /\ l.hit => l.present /\ l.age < 300000
        /\ (l.present /\ l.age >= 300000) => ~l.hit
        /\ l.hit => \A k \in 1..Len(OpsFor(l.i)) : OpsFor(l.i)[k] \notin {"ref", "commit", "tree"}
        /\ ~l.hit => /\ OpsFor(l.i) # << >>
                     /\ \A k \in 1..Min(3, Len(OpsFor(l.i))) :
                            OpsFor(l.i)[k] = <<"ref", "commit", "tree">>[k]
    /\ \A r \in Resolutions :
        (\E l \in Lookups : l.i = r.i /\ ~l.hit) =>
            /\ Len(OpsFor(r.i)) >= 3
            /\ \E st \in Stores :
                /\ st.i = r.i
                /\ st.ts = st.at
                /\ st.tree = buildTree(NotesTree(r.owner, r.repo, r.ref), << >>)

\* C6 witness: an entry aged 5 minutes or more was found, and its tree fetched anew
C6_Witness ==
    \E l \in Lookups :
        /\ l.present /\ l.age >= 300000
        /\ \E st \in Stores : st.i = l.i

\* C7: a cached tree is returned only to a request with the owner, repo and
\* ref of the fetch that stored it.
C7_CacheKeyedByTriple ==
    \A l \in Lookups :
        l.hit => /\ l.by = <<l.owner, l.repo, l.ref>>
                 /\ l.tree = buildTree(NotesTree(l.owner, l.repo, l.ref), << >>)

\* C7 witness: a request finds no tree for its triple and goes to the API,
\* while the cache holds a fresh tree stored for the same ref of the other
\* repository
C7_Witness ==
    /\ h.pc = "api" /\ h.req.op = "ref"
    /\ \E k \in DOMAIN treeCache :
        /\ now - treeCache[k].ts < CACHE_TTL
        /\ storedBy[k][3] = h.req.arg
        /\ <<storedBy[k][1], storedBy[k][2]>> # <<h.owner, h.repo>>

\* the last response of the API to the invocation, when it made it throw
LastThrown ==
    IF hist.responses # << >> /\ hist.responses[Len(hist.responses)].res.status # 200
    THEN {hist.responses[Len(hist.responses)].res} ELSE {}

\* C9 (as claimed): the handler answers 'rate_limit' only for a 403 with
\* x-ratelimit-remaining 0, 'auth_error' for a 401 and 'api_error' for every
\* other failure that is not a 404, a 403 for another reason included.
C9_RateLimitOnlyWhenExhausted ==
    (h.pc = "responded" /\ "error" \in h.response.keys /\ h.response.error # "no_token") =>
        \A res \in LastThrown :
            h.response.error =
                IF res.status = 401 THEN "auth_error"
                ELSE IF res.status = 403 /\ res.remaining = "0" THEN "rate_limit"
                ELSE "api_error"

\* the refs whose fetchGitNote returned content, in the order of the loop
RefsWithContent ==
    LET sel == SelectSeq(hist.fetched, LAMBDA f : f.outcome = "content") IN
    [k \in 1..Len(sel) |-> sel[k].ref]

\* C10: when the only errors of a request are 404s, every ref is processed
\* and the response is {notes} with the note of every ref that gave one.
C10_NotFoundSkipped ==
    (/\ h.pc = "responded"
     /\ h.response.error # "no_token"
     /\ \A r \in Responses : r.res.status \in {200, 404})
    => /\ h.response.keys = {"notes"}
       /\ Len(hist.fetched) = Len(h.refs)
       /\ \A k \in 1..Len(h.refs) : hist.fetched[k].ref = h.refs[k]
       /\ [k \in 1..Len(h.response.notes) |-> h.response.notes[k].ref] = RefsWithContent

\* C10 witness: the first ref raised a 404, the second one gave its note
C10_Witness ==
    /\ h.pc = "responded"
    /\ Len(hist.fetched) = 2
    /\ hist.fetched[1].outcome = "404"
    /\ hist.fetched[2].outcome = "content"
    /\ Len(h.response.notes) = 1

----------------------------------------------------------------------------
(* Properties of the content script's fetch chain, checked under SpecFetch *)

\* the requests issued for ref number i, in order
LogOf(i) == SelectSeq(flog, LAMBDA q : q.i = i)

\* the strategy of a request as the specification numbers them
SpecRank(q) ==
    IF q.host = "github.com" THEN 1 ELSE IF q.token = "" THEN 2 ELSE 3

\* the strategy of a request as the code orders them
CodeRank(q) ==
    IF q.host = "github.com" THEN 3 ELSE IF q.token = "" THEN 1 ELSE 2

FullChain(token) ==
    <<"raw", "raw">> \o (IF token # "" THEN <<"rawtoken", "rawtoken">> ELSE << >>)
                     \o <<"tree">>

KindOf(q) == IF q.kind = "raw" /\ q.token # "" THEN "rawtoken" ELSE q.kind

\* C5: when every request made for a ref fails (401, 403, 404 or a network
\* error), all of them were still made, both raw strategies and the listing,
\* the ref ends with no content, and no error is ever shown.
C5_FailuresDoNotAbort ==
    /\ fr.display # "error"
    /\ \A i \in 1..Len(fr.outcomes) :
        LET l == LogOf(i) IN
        (\A k \in 1..Len(l) : l[k].res = "fail") =>
            /\ [k \in 1..Len(l) |-> KindOf(l[k])] = FullChain(cachedToken)
            /\ fr.outcomes[i] \in {"null", "throw"}
            /\ \A n \in 1..Len(fr.results) : fr.results[n].ref # fr.refs[i]

\* C5 witness: the only ref had a raw request fail with a network error, its
\* token-authenticated requests and its listing failed too (the listing by
\* throwing), and the run ended with nothing shown
C5_Witness ==
    /\ fr.pc = "done" /\ fr.display = "removed"
    /\ fr.netErr
    /\ Len(fr.refs) = 1 /\ fr.outcomes = <<"throw">>
    /\ Len(LogOf(1)) = 5

----------------------------------------------------------------------------
(* Properties of processCommitPage, checked under SpecPage *)

\* C8 (as claimed): a call of processCommitPage changes the document only
\* while the location is still the URL it was started for; after a navigation
\* it neither injects nor fills nor removes a container of the document.
C8_StaleRunLeavesDocumentAlone ==
    lastMut.inDocument => lastMut.url = lastMut.loc

----------------------------------------------------------------------------
(* Properties of the message handlers, checked under SpecOptions *)

NoTokenResponse == ErrorResponse("no_token", "No GitHub token configured")

\* C11: with no stored token handleFetchGitNote answers {error: 'no_token'}
\* and does nothing else: the step that finds no token answers, issues no API
\* request, looks nothing up, reads no refs and leaves the cache as it was;
\* and an invocation that answered no_token has done none of these.
C11_NoTokenNoWork ==
    /\ [](h.response.error = "no_token" =>
             /\ h.pc = "responded"
             /\ h.response = NoTokenResponse
             /\ h.refs = << >>
             /\ hist = EmptyHist)
    /\ [][(h.pc = "get_token" /\ storage.githubToken = "" /\ h' # h) =>
             /\ h'.response = NoTokenResponse
             /\ h'.pc = "responded"
             /\ hist' = EmptyHist
             /\ treeCache' = treeCache]_vars

\* a request is answered no_token while the cache holds a tree fetched earlier
C11_Witness ==
    /\ h.pc = "responded"
    /\ h.response = NoTokenResponse
    /\ storage.githubToken = ""
    /\ treeCache # << >>

----------------------------------------------------------------------------
(* Where the token goes, checked under SpecFetch *)

\* PRIVACY.md, line 13: the hosts the token may be sent to
TokenHosts == {"api.github.com", "raw.githubusercontent.com"}

\* C12: every request that carries the token in an Authorization header goes
\* to api.github.com or raw.githubusercontent.com; the same-origin github.com
\* requests and the unauthenticated first-strategy raw requests carry none.
C12_TokenOnlyToGitHubApiHosts ==
    \A k \in 1..Len(flog) :
        /\ flog[k].token # "" =>
              flog[k].host \in TokenHosts /\ flog[k].token = storage.githubToken
        /\ flog[k].host = "github.com" => flog[k].token = ""
        /\ (flog[k].kind = "raw" /\ flog[k].strat = 1) => flog[k].token = ""

\* a run with a stored token that sent it with a raw request and then asked
\* github.com for the tree listing
C12_Witness ==
    \E j, k \in 1..Len(flog) :
        /\ j < k
        /\ flog[j].token = "ghp_token"
        /\ flog[k].host = "github.com"
        /\ cachedToken = "ghp_token"

----------------------------------------------------------------------------
(* The refs getNoteRefs returns, checked under SpecBg *)

\* README.md, lines 21 and 71: the refs that are always tried
DEFAULT_NOTE_REFS == << RefCommits, RefTrail >>

Elems(seq) == {seq[k] : k \in 1..Len(seq)}

NoDuplicates(seq) == \A j, k \in 1..Len(seq) : seq[j] = seq[k] => j = k

\* C13 (as claimed): the refs getNoteRefs has returned to handleFetchGitNote
\* hold both default refs and every configured ref, each at most once.
C13_ConfiguredRefsAreAdditional ==
    h.refs # << >> =>
        /\ Elems(DEFAULT_NOTE_REFS) \subseteq Elems(h.refs)
        /\ Elems(storage.noteRefs) \subseteq Elems(h.refs)
        /\ NoDuplicates(h.refs)

----------------------------------------------------------------------------
(* CLEAR_CACHE, checked under SpecOptions *)

----------------------------------------------------------------------------
(* Properties of detectFormat, checked under SpecNote *)

isJson(t) == At(t, 1) \in {"[", "{"} /\ jsonParses(t)

hasMarkdownPattern(t) ==
    \/ reHeading(t) \/ reBold(t) \/ reTable(t) \/ reUnorderedList(t)
    \/ reOrderedList(t) \/ reCodeFence(t) \/ reHtmlComment(t)

\* what the tests of the repository expect of the contents they share with NoteContents
ExpectedFormat ==
    [c \in { <<"{", "\"", "k", "\"", ":", " ", "\"", "v", "\"", "}">>,
             <<"[", "1", ",", " ", "2", "]">>,
             <<"{", "n", "o", "t", " ", "j", "s", "o", "n", "}">>,
             <<"#", " ", "T">> \o <<"\n">> \o <<"h", "i">>,
             <<"*", "*", "b", "*", "*">>,
             <<"-", " ", "x">> \o <<"\n">> \o <<"-", " ", "x">>,
             <<"1", "2", ".", " ", "x">> \o <<"\n">> \o <<"1", "2", ".", " ", "x">>,
             <<"|", "a", "|", "b", "|">> \o <<"\n">> \o <<"|", "a", "|", "b", "|">>,
             <<Backtick, Backtick, Backtick, "j", "s">> \o <<"\n">> \o <<"h", "i">>,
             <<"<", "!", "-", "-", "c", "-", "-", ">">> \o <<"\n">> \o <<"h", "i">>,
             <<"a", ":", " ", "b">> \o <<"\n">> \o <<"b", "_", "1", ":", " ", "c">>,
             <<"a", ":", " ", "b">>,
             <<"h", "i">>,
             << >>,
             <<" ">> \o <<"\n">> \o <<" ">>,
             <<"a", ":", " ", "*", "*", "b", "*", "*">> \o <<"\n">> \o <<"a", ":", " ", "b">> } |->
        CASE c \in { <<"{", "\"", "k", "\"", ":", " ", "\"", "v", "\"", "}">>,
                     <<"[", "1", ",", " ", "2", "]">> } -> "json"
          [] c = <<"a", ":", " ", "b">> \o <<"\n">> \o <<"b", "_", "1", ":", " ", "c">> -> "yaml"
          [] c \in { <<"{", "n", "o", "t", " ", "j", "s", "o", "n", "}">>,
                     <<"a", ":", " ", "b">>, <<"h", "i">>, << >>,
                     <<" ">> \o <<"\n">> \o <<" ">> } -> "plain"
          [] OTHER -> "markdown"]

\* C16: detectFormat classifies the trimmed text by strict precedence: json
\* iff it starts with { or [ and parses; else markdown iff one of the seven
\* patterns is present; else yaml iff at least two lines match key: value;
\* else plain.  The contents the tests name get the format the tests expect.
C16_FormatPrecedence ==
    fmt.calls > 0 =>
        LET t == trim(fmt.content)
            keys == Cardinality(yamlKeyMatches(t)) IN
        /\ (fmt.format = "json") = isJson(t)
        /\ (fmt.format = "markdown") = (~isJson(t) /\ hasMarkdownPattern(t))
        /\ (fmt.format = "yaml") = (~isJson(t) /\ ~hasMarkdownPattern(t) /\ keys >= 2)
        /\ (fmt.format = "plain") = (~isJson(t) /\ ~hasMarkdownPattern(t) /\ keys < 2)
        /\ fmt.content \in DOMAIN ExpectedFormat => fmt.format = ExpectedFormat[fmt.content]

\* valid JSON that holds a markdown pattern has been classified as json
C16_Witness ==
    /\ fmt.calls > 0
    /\ fmt.format = "json"
    /\ hasMarkdownPattern(trim(fmt.content))

----------------------------------------------------------------------------
(* Properties of the fanout split, checked under SpecSplit *)

\* C17: the split of a 40-character SHA gives a prefix of 2 characters and a
\* suffix of 38 whose concatenation is the SHA, the fanout path is
\* branch/prefix/suffix, and two different SHAs never give the same
\* (prefix, suffix) pair.
C17_FanoutRoundTrip ==
    /\ [](fanout.sha # << >> =>
             /\ Len(fanout.sha) = 40
             /\ Len(fanout.prefix) = 2
             /\ Len(fanout.suffix) = 38
             /\ fanout.prefix \o fanout.suffix = fanout.sha
             /\ fanout.path = <<"notes", "/", "commits", "/">> \o fanout.prefix
                                \o <<"/">> \o fanout.suffix)
    /\ [][(fanout.sha # << >> /\ fanout'.sha # fanout.sha) =>
             <<fanout'.prefix, fanout'.suffix>> # <<fanout.prefix, fanout.suffix>>]_vars

\* a SHA with an upper-case digit in its prefix has been split
C17_Witness ==
    /\ Len(fanout.sha) = 40
    /\ fanout.prefix = <<"F", "0">>
    /\ fanout.suffix[1] = "a" /\ fanout.suffix[38] = "9"

----------------------------------------------------------------------------
(* Properties of the rendering, checked under SpecRender *)

\* does s hold t somewhere
Contains(s, t) == \E i \in 1..Len(s) : HasAt(s, i, t)

\* the names of the start and end tags of the HTML
TagNames(html) ==
    {IF At(html, i + 1) = "/" THEN At(html, i + 2) ELSE At(html, i + 1) :
        i \in {i \in 1..Len(html) : html[i] = "<"}}

\* position i lies in a tag, and outside (FALSE) or inside (TRUE) a quoted value
InTag(html, i, quoted) ==
    \E j \in 1..(i - 1) :
        /\ html[j] = "<"
        /\ \A k \in (j + 1)..(i - 1) : html[k] # ">"
        /\ (Cardinality({k \in j..(i - 1) : html[k] = "\""}) % 2 = 1) = quoted

AttributeNames(html) ==
    {html[i] : i \in {i \in 1..Len(html) : At(html, i + 1) = "=" /\ InTag(html, i, FALSE)}}

AttributeValues(html) ==
    {SubSeq(html, i + 1, Find(html, i + 1, "\"") - 1) :
        i \in {i \in 1..Len(html) : html[i] = "\"" /\ InTag(html, i, FALSE)}}

HandlerNames == {"onerror", "onload", "onclick", "onmouseover", "onfocus"}

\* the value is a javascript: URL, leading white space aside
ScriptUrl(value) ==
    LET v == SelectSeq(value, LAMBDA c : c \notin Whitespace) IN
    v # << >> /\ v[1] = "javascript:"

\* every & of the text starts a character reference, and no < or > is left
Escaped(text) ==
    \A i \in 1..Len(text) :
        /\ text[i] \notin {"<", ">", Nbsp}
        /\ text[i] = "&" => \E en \in Entities : HasAt(text, i, en)

\* C18: the HTML of a Markdown note holds no script element, no event-handler
\* attribute, no javascript: URL and no tag or attribute outside the allow-lists
\* (no iframe, form, input, style or svg); without the sanitizer the converted
\* HTML is escaped as a whole.
C18_MarkdownOutputIsSafe ==
    rendered.format = "markdown" =>
        LET html == rendered.html IN
        /\ TagNames(html) \subseteq ALLOWED_TAGS
        /\ TagNames(html) \cap {"script", "iframe", "form", "input", "style", "svg"} = {}
        /\ AttributeNames(html) \subseteq ALLOWED_ATTR
        /\ AttributeNames(html) \cap HandlerNames = {}
        /\ \A value \in AttributeValues(html) : ~ScriptUrl(value)
        /\ (rendered.libs.marked /\ ~rendered.libs.DOMPurify) => Escaped(html)

\* a note with an event handler on an image was sanitised: the image is left
C18_Witness ==
    /\ rendered.format = "markdown"
    /\ rendered.libs.marked /\ rendered.libs.DOMPurify
    /\ Contains(rendered.content, <<"<", "img", " ", "onerror">>)
    /\ Contains(rendered.html, <<"<", "img", " ", "src">>)

\* the text that escaped HTML stands for.  A character reference holds no
\* & after its first character, so no two of them overlap.
decodeEntities(text) ==
    LET refAt(i) == {en \in Entities : HasAt(text, i, en)}
        within(i) == \E j \in (i - 5)..(i - 1) :
                         j >= 1 /\ \E en \in refAt(j) : i < j + Len(en)
        char(en) == CASE en[2] = "a" -> "&" [] en[2] = "l" -> "<" [] en[2] = "g" -> ">"
                      [] en[2] = "n" -> Nbsp [] OTHER -> "\""
        piece(i) == IF within(i) THEN << >>
                    ELSE IF refAt(i) # {} THEN <<char(CHOOSE en \in refAt(i) : TRUE)>>
                    ELSE <<text[i]>>
    IN Concat([i \in 1..Len(text) |-> piece(i)])

\* the HTML without the start and end tags of the key spans.  Each tag holds
\* no < after its first character, so no two of them overlap.
stripSpans(html) ==
    LET tagAt(i) == {t \in {SpanOpen, SpanClose} : HasAt(html, i, t)}
        within(i) == \E j \in 1..i : \E t \in tagAt(j) : i < j + Len(t)
    IN Concat([i \in 1..Len(html) |-> IF within(i) THEN << >> ELSE <<html[i]>>])

\* every key span holds one or more word characters, dots and dashes and is
\* followed by a colon, and every end tag closes such a span
SpansAroundKeys(html) ==
    LET keyEnd(i) == SkipAll(html, i + Len(SpanOpen), WordChars \cup {".", "-"}) IN
    /\ \A i \in 1..Len(html) :
          HasAt(html, i, SpanOpen) =>
              /\ keyEnd(i) > i + Len(SpanOpen)
              /\ HasAt(html, keyEnd(i), SpanClose \o <<":">>)
    /\ \A e \in 1..Len(html) :
          HasAt(html, e, SpanClose) =>
              \E i \in 1..(e - 1) : HasAt(html, i, SpanOpen) /\ keyEnd(i) = e

\* C19: for json, yaml and plain the output is the <pre> wrapper around
\* escaped text; the only other markup is the key span of yaml; the escaped
\* text stands for the note content, or for the re-serialised JSON value
\* when the content parses.
C19_TextFormatsEscaped ==
    rendered.format \in {"json", "yaml", "plain"} =>
        LET html == rendered.html
            body == SubSeq(html, Len(pre(<< >>)) - 3, Len(html) - 4)
            text == stripSpans(body)
            valid == rendered.format = "json" /\ jsonParses(trim(rendered.content)) IN
        /\ html = pre(body)
        /\ Escaped(text)
        /\ SpansAroundKeys(body)
        /\ rendered.format # "yaml" => text = body
        /\ ~valid => decodeEntities(text) = rendered.content
        /\ valid =>
              /\ jsonParses(decodeEntities(text))
              /\ jsonParse(decodeEntities(text)) = jsonParse(trim(rendered.content))

\* a yaml note with a tag in a value was rendered: the key is highlighted
\* and the tag escaped
C19_Witness ==
    /\ rendered.format = "yaml"
    /\ Contains(rendered.content, <<"<", "s", "c", "r", "i", "p", "t", ">">>)
    /\ Contains(rendered.html, SpanOpen)
    /\ Contains(rendered.html, <<"&", "l", "t", ";", "s", "c", "r", "i", "p", "t", "&", "g", "t", ";">>)

----------------------------------------------------------------------------
(* Properties of the note box, checked under SpecBox *)

\* C20: in the box of a note that is not plain, after any number of clicks
\* on the toggle one of the two bodies is hidden and the other visible, the
\* button is ghn-active iff the raw body is the visible one, the rendered
\* body is the one shown first, and two clicks in a row bring back what was
\* shown before them; the box of a plain note has no toggle and no badge.
C20_ToggleShowsOneBody ==
    box.shown =>
        /\ box.format # "plain" =>
              /\ box.toggle /\ box.raw /\ box.badge = box.format
              /\ box.renderedHidden # box.rawHidden
              /\ box.active = ~box.rawHidden
              /\ box.seen[1] = <<FALSE, TRUE, FALSE>>
              /\ \A i \in 1..Len(box.seen) :
                    /\ box.seen[i][1] # box.seen[i][2]
                    /\ box.seen[i][3] = ~box.seen[i][2]
                    /\ i + 2 <= Len(box.seen) => box.seen[i + 2] = box.seen[i]
                    /\ i + 1 <= Len(box.seen) => box.seen[i + 1] # box.seen[i]
        /\ box.format = "plain" =>
              /\ ~box.toggle /\ ~box.raw /\ box.badge = ""
              /\ ~box.renderedHidden
              /\ Len(box.seen) = 1

\* a markdown note was toggled to raw and back, with the box collapsed meanwhile
C20_Witness ==
    /\ box.shown /\ box.format = "markdown"
    /\ box.collapsed
    /\ Len(box.seen) = 3
    /\ box.seen[2] = <<TRUE, FALSE, TRUE>>
    /\ visible(box) = <<FALSE, TRUE, FALSE>>

\* C21: once measured, a note taller than the collapse threshold is collapsed
\* with the show-more button visible, labelled 'Show full note' until it is
\* clicked; a note at or under the threshold never shows the button; after
\* any number of clicks the label is 'Collapse note' iff the box is expanded.
C21_CollapseAndLabel ==
    box.shown =>
        /\ (box.framed /\ box.height > 500) =>
              /\ box.collapsed /\ ~box.showMoreHidden
              /\ box.moreClicks = 0 => box.label = "Show full note" /\ ~box.expanded
        /\ (~box.framed \/ box.height <= 500) =>
              /\ box.showMoreHidden /\ ~box.collapsed
              /\ box.moreClicks = 0
        /\ box.label = (IF box.expanded THEN "Collapse note" ELSE "Show full note")
        /\ box.expanded = (box.moreClicks % 2 = 1)

\* a note just over the threshold was expanded and collapsed again
C21_Witness ==
    /\ box.shown /\ box.framed /\ box.height = 501
    /\ box.moreClicks = 2
    /\ box.label = "Show full note"

----------------------------------------------------------------------------
(* Properties of parseCommitUrl, checked under SpecUrl *)

\* the path is /<owner>/<repo>/commit/<sha>: five segments, the first empty,
\* owner and repo not empty, the fourth the word commit, the last 5 to 40
\* hexadecimal characters
IsCommitPath(pathname, words) ==
    LET seg == split(pathname, "/") IN
    /\ Len(seg) = 5
    /\ seg[1] = << >> /\ seg[2] # << >> /\ seg[3] # << >>
    /\ seg[4] \in words
    /\ Len(seg[5]) \in 5..40
    /\ \A j \in 1..Len(seg[5]) : seg[5][j] \in HexDigits

\* C22: parseCommitUrl finds a commit page exactly when the path is
\* /<owner>/<repo>/commit/<sha> with a SHA of 5 to 40 hexadecimal characters
\* in either case and nothing after it, and then gives the three parts; for
\* every other path it returns null.
C22_CommitPathsOnly ==
    parsed.calls > 0 =>
        LET seg == split(parsed.pathname, "/") IN
        /\ parsed.match.found = IsCommitPath(parsed.pathname, {<<"c", "o", "m", "m", "i", "t">>})
        /\ parsed.match.found =>
              /\ parsed.match.owner = seg[2]
              /\ parsed.match.repo = seg[3]
              /\ parsed.match.commitSha = seg[5]

----------------------------------------------------------------------------
(* Properties of the outcome of processCommitPage, checked under SpecPage  *)

\* the refs of `notes` are refs of `refs`, each once, in the order of `refs`
InRefOrder(notes, refs) ==
    \E at \in [1..Len(notes) -> 1..Len(refs)] :
        /\ \A k \in 1..Len(notes) : notes[k] = refs[at[k]]
        /\ \A k \in 1..Len(notes) : \A m \in 1..Len(notes) : k < m => at[k] < at[m]

\* the call `run` has just tried its last ref
LastRefTried(run) ==
    /\ runs[run].pc = "fetch"
    /\ runs'[run].pc = "done"

\* C23 (as claimed): when a call of processCommitPage has tried all refs, its
\* container shows one box for each ref that yielded content, in the order
\* of the ref list, if there is one; else the token-needed message if a
\* ref reported a note that could not be read; else the container is no
\* longer in the document.  showNotes with an empty list removes the
\* container.
C23_OutcomeOfAllRefs ==
    [][\A run \in 1..MaxRuns :
          LastRefTried(run) =>
              LET r == runs'[run] IN
              /\ InRefOrder(r.results, r.refs)
              /\ Len(r.results) > 0 =>
                     doc'.elems[run] = "notes" /\ doc'.boxes[run] = r.results
              /\ Len(r.results) = 0 /\ r.needsToken => doc'.elems[run] = "tokenNeeded"
              /\ Len(r.results) = 0 /\ ~r.needsToken =>
                     /\ \A k \in 1..Len(doc'.dom) : doc'.dom[k] # run
                     /\ \A k \in 1..Len(showNotesIn(P, run, r.url, << >>).doc.dom) :
                            showNotesIn(P, run, r.url, << >>).doc.dom[k] # run]_vars

\* C24 (as claimed): the document never holds more than one element with the
\* id ghn-notes-container, however the calls of processCommitPage started by
\* the script, by turbo:load and by the URL-change observer interleave.
C24_AtMostOneContainer ==
    Len(doc.dom) <= 1

----------------------------------------------------------------------------
(* CLEAR_CACHE during a fetchNotesTree, checked under SpecOptions *)

\* C25 (as claimed): a CLEAR_CACHE processed while fetchNotesTree awaits the
\* API is not undone: no tree is stored in the cache whose ref request was
\* begun before a clear that came before the store.
C25_ClearNotUndone ==
    \A k \in 1..Len(hist.stores) : ~hist.stores[k].cleared

----------------------------------------------------------------------------
(* Errors in handleFetchGitNote, checked under SpecBg *)

\* C26: an API error other than 404 ends the request at once: its response
\* is the last one the handler received, no request was issued after it,
\* the handler has answered with {error, message} only, without the notes
\* collected before; and every answer has exactly one of the keys error and
\* notes.
C26_ErrorEndsRequest ==
    /\ \A k \in 1..Len(hist.responses) :
          LET r == hist.responses[k]
              err == githubApi(r.res) IN
          (~err.ok /\ err.status # 404) =>
              /\ k = Len(hist.responses)
              /\ Len(hist.apiLog) = k
              /\ \A q \in 1..Len(hist.apiLog) : hist.apiLog[q].i <= r.i
              /\ h.pc = "responded"
              /\ h.response = errorResponse(err)
              /\ h.response.keys = {"error", "message"}
              /\ h.response.notes = << >>
    /\ h.pc = "responded" =>
          ("error" \in h.response.keys) # ("notes" \in h.response.keys)

\* C26 witness: the first of two refs gave its note, the second one raised
\* an error that is not a 404, and the answer carries the error only
C26_Witness ==
    /\ h.pc = "responded"
    /\ Len(h.refs) = 2
    /\ h.i = 2
    /\ Len(h.results) = 1
    /\ "error" \in h.response.keys
    /\ h.response.notes = << >>

----------------------------------------------------------------------------
(* The classes of the body wrapper, checked under SpecSandboxed *)

\* C27 (as claimed): the wrapper of a note never has both classes
\* ghn-expanded and ghn-truncated, in any order of show-more clicks and
\* height messages, and the label of the button is 'Collapse note' exactly
\* when the wrapper is expanded and not truncated.
C27_ExpandedXorTruncated ==
    box.shown =>
        /\ ~(box.expanded /\ box.truncated)
        /\ (box.label = "Collapse note") <=> (box.expanded /\ ~box.truncated)

----------------------------------------------------------------------------
(* The loading state of the container, checked under SpecPage *)

\* the container injected by the call `run` is in the document
InDocument(run) == \E k \in 1..Len(doc.dom) : doc.dom[k] = run

\* no call of processCommitPage is waiting for anything
AllCallsEnded == \A run \in 1..MaxRuns : runs[run].pc \in {"unused", "done"}

\* C28 (as claimed): a call of processCommitPage that injected its container
\* in the loading state leaves the page without a spinner: once the calls
\* have ended, all their fetches settled, the container of each shows
\* notes, the token-needed message or an error, or is out of the document,
\* also when a second call was started before the first one had finished.
C28_NoSpinnerLeft ==
    AllCallsEnded =>
        \A run \in 1..MaxRuns : ~(InDocument(run) /\ doc.elems[run] = "loading")

----------------------------------------------------------------------------
(* The message listener of the background worker, checked under SpecPage *)

\* C29 (as claimed): a message a surface has sent was taken by a branch of
\* the listener of the background worker, and after a click on the settings
\* link of the token-needed box, which sends OPEN_OPTIONS, the options page
\* is open.
C29_EveryMessageHandled ==
    env.sent # "none" => env.handledBy # "none" /\ env.optionsOpen

----------------------------------------------------------------------------
(* The token the content script uses, checked under SpecToken *)

\* C30 (as claimed): the token a fetchNoteContent call gets from
\* getStoredToken is the token that is in storage at the time of the call,
\* also after the user has set, changed or removed it (a storage read that
\* failed aside).
C30_FollowsStoredToken ==
    ~fr.got.failed => fr.got.used = fr.got.stored

====
